---- MODULE Spec2Model ----
(***************************************************************************)
(* Role-based access control and session invalidation of the case          *)
(* management backend (backend/app/api: deps, auth, users, cases,          *)
(* evidence).  Every request handler is one atomic action: it reads the    *)
(* persisted tables, decides the HTTP status and, on success, commits its  *)
(* writes.  The response of the request being served is kept in `last`     *)
(* until Respond hands it to the client.                                   *)
(***************************************************************************)
EXTENDS Integers, Sequences, FiniteSets, TLC

\* ------------------------------------------------------------ vocabulary

None == "None"        \* SQL NULL / Python None
Unset == "Unset"      \* a field the request body does not carry (exclude_unset)
NoFile == 0           \* evidence.file_path of a row that has no file (NULL)

SUPER_ADMIN == "SUPER_ADMIN"
ORG_ADMIN == "ORG_ADMIN"
STAFF_USER == "STAFF_USER"
INDIVIDUAL_USER == "INDIVIDUAL_USER"
UserRole == {SUPER_ADMIN, ORG_ADMIN, STAFF_USER, INDIVIDUAL_USER}

OPEN == "OPEN"
CLOSED == "CLOSED"
CaseStatus == {OPEN, CLOSED}

\* HTTP outcomes, named as the error taxonomy names them
OK == "OK"                       \* 200 / 201 / 204
BadRequest == "BadRequest"       \* 400
Unauthorized == "Unauthorized"   \* 401
Forbidden == "Forbidden"         \* 403
NotFound == "NotFound"           \* 404
ServerError == "ServerError"     \* 500: an exception no handler catches

\* identifiers the requests can name
OrgIds == {"A", "B"}
UserIds == {"root", "adminA", "staffA", "staffB", "indiv", "retired", "ghost"}
Passwords == {"p1", "p2"}

\* ---------------------------------------------------------------- bounds

MaxCases == 1         \* case rows ever created
MaxBatch == 2         \* length of the user_ids list of an assignment request
MaxTime == 3          \* clock readings
MaxEvidence == 1      \* evidence rows ever created
MaxUserUpdates == 2   \* successful update_user requests
MaxTokens == 2        \* access tokens held by clients
MaxResets == 1        \* password reset tokens ever issued
MaxFiles == 1         \* files ever saved in the upload directory
MaxConfirms == 2      \* confirm_password_reset requests served at the same time

CaseIds == 1..MaxCases
EvidenceIds == 1..MaxEvidence

VARIABLES
    users,        \* table users: id -> row
    orgs,         \* table organizations: id -> row
    cases,        \* table cases: id -> row
    assignments,  \* table case_assignments: set of rows
    evidence,     \* table evidence: id -> row
    files,        \* the upload directory: path -> whether the file is there
    caseSeq,      \* case ids handed out so far (uuid4 never repeats)
    evSeq,        \* evidence ids handed out so far
    now,          \* the wall clock, in ticks
    userUpdates,  \* successful update_user requests so far
    tokens,       \* access tokens issued and still held by clients
    password_reset_tokens,  \* users.py's process-wide reset-token map
    confirming,   \* confirm_password_reset requests past their token lookup
    last          \* the response of the request being served, or NoRequest

tables == <<users, orgs, cases, assignments, evidence, files>>
counters == <<caseSeq, evSeq, now, userUpdates>>
sessions == <<tokens, password_reset_tokens, confirming>>
vars == <<users, orgs, cases, assignments, evidence, files, caseSeq, evSeq, now,
          userUpdates, tokens, password_reset_tokens, confirming, last>>

\* ------------------------------------------------------------- responses

AuditEntry(action, resource_type) ==
    [action |-> action, resource_type |-> resource_type]

\* The response record: the request (op, actor, targets), the status, the
\* case ids a listing returns and the audit rows the request appended.
Response(op, actor, case, user, batch, res, listed, audit) ==
    [op |-> op, actor |-> actor, case |-> case, user |-> user, batch |-> batch,
     res |-> res, listed |-> listed, audit |-> audit]

NoRequest == Response("none", None, 0, None, <<>>, OK, {}, <<>>)

\* create_audit_log_entry appends one row after a successful operation
Audited(res, action, resource_type) ==
    IF res = OK THEN <<AuditEntry(action, resource_type)>> ELSE <<>>

\* ----------------------------------------------------------- table reads

Exists(u) == u \in DOMAIN users
CaseExists(c) == c \in DOMAIN cases

\* db.query(CaseAssignment).filter(case_id == c, user_id == u).first() is not None
is_assigned_via_table(c, u) ==
    \E a \in assignments : a.case_id = c /\ a.user_id = u

Remove(f, k) == [x \in (DOMAIN f) \ {k} |-> f[x]]

\* ------------------------------------------------------ deps.py: identity

\* get_current_active_user on a session that resolves to user u
get_current_active_user(u) == Exists(u) /\ users[u].is_active

\* ------------------------------------------------- cases.py: create_case

\* The status create_case answers with.  A Super Admin who names an
\* organization reaches db.query(Organization) with Organization never
\* imported into cases.py (NameError); an Individual User's case is inserted
\* with organization_id NULL into a NOT NULL column (IntegrityError).
create_case_status(u, organization_id) ==
    LET current_user == users[u] IN
    IF current_user.role = SUPER_ADMIN
    THEN IF organization_id = None THEN BadRequest ELSE ServerError
    ELSE IF current_user.role = INDIVIDUAL_USER
    THEN ServerError
    ELSE IF current_user.organization_id = None THEN BadRequest
    ELSE IF organization_id # None /\ organization_id # current_user.organization_id
    THEN Forbidden
    ELSE OK

create_case(u, organization_id) ==
    LET res == create_case_status(u, organization_id)
        id == caseSeq + 1
    IN  /\ get_current_active_user(u)
        /\ IF res = OK
           THEN /\ caseSeq < MaxCases
                /\ cases' = cases @@ (id :> [organization_id |-> users[u].organization_id,
                                             created_by |-> u,
                                             assigned_to |-> None,
                                             status |-> OPEN])
                /\ caseSeq' = id
           ELSE UNCHANGED <<cases, caseSeq>>
        /\ last' = Response("create_case", u, IF res = OK THEN id ELSE 0, None, <<>>,
                            res, {}, Audited(res, "CREATE", "Case"))
        /\ UNCHANGED <<users, orgs, assignments, evidence, files, evSeq, now, userUpdates,
                       sessions>>

\* --------------------------------------------------- cases.py: read_case

\* read_case's role branch with the assignment table left out
read_case_authorized_without_table(u, c) ==
    LET current_user == users[u]
        case == cases[c]
    IN  IF current_user.role = SUPER_ADMIN THEN TRUE
        ELSE IF current_user.role = ORG_ADMIN
        THEN ~(case.organization_id # current_user.organization_id)
        ELSE ~(case.created_by # u /\ case.assigned_to # u)

\* read_case's role branch with Staff and Individual users admitted by
\* organization, as the evidence reads admit them
read_case_authorized_by_tenant(u, c) ==
    LET current_user == users[u]
        case == cases[c]
    IN  IF current_user.role = SUPER_ADMIN THEN TRUE
        ELSE ~(case.organization_id # current_user.organization_id)

\* The role branch of read_case (lines 145-169): TRUE when no 403 is raised.
read_case_authorized(u, c) ==
    LET current_user == users[u]
        case == cases[c]
    IN  IF current_user.role = SUPER_ADMIN THEN TRUE
        ELSE IF current_user.role = ORG_ADMIN
        THEN ~(case.organization_id # current_user.organization_id)
        ELSE IF current_user.role = STAFF_USER
        THEN ~(/\ case.created_by # u
               /\ case.assigned_to # u
               /\ ~is_assigned_via_table(c, u))
        ELSE IF current_user.role = INDIVIDUAL_USER
        THEN ~(/\ case.created_by # u
               /\ case.assigned_to # u
               /\ ~is_assigned_via_table(c, u))
        ELSE TRUE

read_case_status(u, c) ==
    IF ~CaseExists(c) THEN NotFound
    ELSE IF ~read_case_authorized(u, c) THEN Forbidden
    ELSE OK

read_case(u, c) ==
    LET res == read_case_status(u, c) IN
    /\ get_current_active_user(u)
    /\ last' = Response("read_case", u, c, None, <<>>, res, {}, Audited(res, "READ", "Case"))
    /\ UNCHANGED <<tables, counters, sessions>>

\* -------------------------------------------------- cases.py: read_cases

\* The query read_cases builds, without status/priority filter and with no
\* pagination cut.
read_cases_query(u) ==
    LET current_user == users[u] IN
    IF current_user.role = SUPER_ADMIN THEN DOMAIN cases
    ELSE IF current_user.role = ORG_ADMIN
    THEN {c \in DOMAIN cases : cases[c].organization_id = current_user.organization_id}
    ELSE {c \in DOMAIN cases : \/ cases[c].created_by = u
                               \/ cases[c].assigned_to = u
                               \/ is_assigned_via_table(c, u)}

read_cases_status(u) ==
    LET current_user == users[u] IN
    IF /\ current_user.role \in {ORG_ADMIN, STAFF_USER}
       /\ current_user.organization_id = None
    THEN BadRequest
    ELSE OK

read_cases(u) ==
    LET res == read_cases_status(u) IN
    /\ get_current_active_user(u)
    /\ last' = Response("read_cases", u, 0, None, <<>>, res,
                        IF res = OK THEN read_cases_query(u) ELSE {},
                        Audited(res, "READ", "Case"))
    /\ UNCHANGED <<tables, counters, sessions>>

\* ------------------------------------------------- cases.py: update_case

\* update_case's role branch with the assignment table left out for Staff
update_case_authorized_without_table(u, c) ==
    LET current_user == users[u]
        case == cases[c]
    IN  IF current_user.role = SUPER_ADMIN THEN TRUE
        ELSE IF current_user.role = ORG_ADMIN
        THEN ~(case.organization_id # current_user.organization_id)
        ELSE IF current_user.role = STAFF_USER
        THEN ~(case.created_by # u /\ case.assigned_to # u)
        ELSE ~(/\ case.created_by # u
               /\ case.assigned_to # u
               /\ ~is_assigned_via_table(c, u))

\* The role branch of update_case (lines 189-213): TRUE when no 403 is raised.
update_case_authorized(u, c) ==
    LET current_user == users[u]
        case == cases[c]
    IN  IF current_user.role = SUPER_ADMIN THEN TRUE
        ELSE IF current_user.role = ORG_ADMIN
        THEN ~(case.organization_id # current_user.organization_id)
        ELSE IF current_user.role = STAFF_USER
        THEN ~(/\ case.created_by # u
               /\ case.assigned_to # u
               /\ ~is_assigned_via_table(c, u))
        ELSE IF current_user.role = INDIVIDUAL_USER
        THEN ~(/\ case.created_by # u
               /\ case.assigned_to # u
               /\ ~is_assigned_via_table(c, u))
        ELSE TRUE

\* update_data = case_update.model_dump(exclude_unset=True): the fields the
\* request carries.  assigned_to is a foreign key to users.id, checked by the
\* database at commit.
update_case_status(u, c, case_update) ==
    IF ~CaseExists(c) THEN NotFound
    ELSE IF ~update_case_authorized(u, c) THEN Forbidden
    ELSE IF case_update.assigned_to \notin {Unset, None} /\ ~Exists(case_update.assigned_to)
    THEN ServerError
    ELSE OK

update_case(u, c, case_update) ==
    LET res == update_case_status(u, c, case_update) IN
    /\ get_current_active_user(u)
    /\ IF res = OK
       THEN cases' = [cases EXCEPT ![c] =
                [@ EXCEPT !.assigned_to = IF case_update.assigned_to = Unset THEN @
                                          ELSE case_update.assigned_to,
                          !.status = IF case_update.status = Unset THEN @
                                     ELSE case_update.status]]
       ELSE UNCHANGED cases
    /\ last' = Response("update_case", u, c, case_update.assigned_to, <<>>, res, {},
                        Audited(res, "UPDATE", "Case"))
    /\ UNCHANGED <<users, orgs, assignments, evidence, files, counters, sessions>>

\* ------------------------------------------------- cases.py: delete_case

\* delete_case's role branch with the creator rule applied to Staff as well
delete_case_authorized_any_creator(u, c) ==
    LET current_user == users[u]
        case == cases[c]
    IN  IF current_user.role = SUPER_ADMIN THEN TRUE
        ELSE IF current_user.role = ORG_ADMIN
        THEN ~(case.organization_id # current_user.organization_id)
        ELSE case.created_by = u

\* The role branch of delete_case (lines 240-248): TRUE when no 403 is raised.
delete_case_authorized(u, c) ==
    LET current_user == users[u]
        case == cases[c]
    IN  IF current_user.role = SUPER_ADMIN THEN TRUE
        ELSE IF current_user.role = ORG_ADMIN
        THEN ~(case.organization_id # current_user.organization_id)
        ELSE IF current_user.role = INDIVIDUAL_USER /\ case.created_by = u THEN TRUE
        ELSE FALSE

\* The statements of the cascade, in the order the handler issues them
\* (lines 251-260); a storage failure can hit after any number of them.
CascadeSteps == <<"evidence", "assignments", "case">>
FailPoints == {"none", "evidence", "assignments", "case", "commit"}

\* How many statements of the cascade ran before the failure.
StepsBefore(fail) ==
    IF fail = "evidence" THEN 0
    ELSE IF fail = "assignments" THEN 1
    ELSE IF fail = "case" THEN 2
    ELSE 3

\* The session's pending view <<cases, assignments, evidence>> after the
\* first n statements of the cascade for case c.
delete_case_pending(c, n) ==
    LET ev == IF n >= 1
              THEN [e \in {x \in DOMAIN evidence : evidence[x].case_id # c} |-> evidence[e]]
              ELSE evidence
        asg == IF n >= 2 THEN {a \in assignments : a.case_id # c} ELSE assignments
        cs == IF n >= 3 THEN Remove(cases, c) ELSE cases
    IN  <<cs, asg, ev>>

\* A storage that persists every statement of the cascade as it is issued
delete_case_commit_each_statement(persisted, pending, failed) == pending

\* db.commit() (line 261) is the handler's only commit: the pending deletes
\* become the persisted tables together, and an exception before or during it
\* leaves the transaction to be rolled back when the session is closed.
delete_case_commit(persisted, pending, failed) ==
    IF failed THEN persisted ELSE pending

delete_case_status(u, c, fail) ==
    IF ~CaseExists(c) THEN NotFound
    ELSE IF ~delete_case_authorized(u, c) THEN Forbidden
    ELSE IF fail # "none" THEN ServerError
    ELSE OK

delete_case(u, c, fail) ==
    LET res == delete_case_status(u, c, fail)
        after == IF res \in {OK, ServerError}
                 THEN delete_case_commit(<<cases, assignments, evidence>>,
                                         delete_case_pending(c, StepsBefore(fail)),
                                         fail # "none")
                 ELSE <<cases, assignments, evidence>>
    IN  /\ get_current_active_user(u)
        /\ cases' = after[1]
        /\ assignments' = after[2]
        /\ evidence' = after[3]
        /\ last' = Response("delete_case", u, c, None, <<>>, res, {},
                            Audited(res, "DELETE", "Case"))
        /\ UNCHANGED <<users, orgs, files, counters, sessions>>

\* ---------------------------------------- cases.py: assign_users_to_case

\* The ids of a user_ids list
Ids(user_ids) == {user_ids[i] : i \in DOMAIN user_ids}

\* The authorization check (lines 316-322): TRUE when no 403 is raised.
assign_users_authorized(u, c) ==
    LET current_user == users[u]
        case == cases[c]
    IN  IF current_user.role = SUPER_ADMIN THEN TRUE
        ELSE IF current_user.role = ORG_ADMIN
        THEN ~(case.organization_id # current_user.organization_id)
        ELSE FALSE

\* db.query(User).filter(User.id.in_(user_ids), User.is_active == True).all()
active_users_in(user_ids) ==
    {x \in Ids(user_ids) : Exists(x) /\ users[x].is_active}

\* The validation with the organization comparison left out
assign_users_valid_without_tenant(c, user_ids) ==
    Cardinality(active_users_in(user_ids)) = Len(user_ids)

\* The validation of the batch (lines 325-333): TRUE when no 400 is raised.
\* The rows the query returns are compared by number with the list itself.
assign_users_valid(c, user_ids) ==
    LET found == active_users_in(user_ids) IN
    /\ ~(Cardinality(found) # Len(user_ids))
    /\ \/ cases[c].organization_id = None
       \/ {x \in found : users[x].organization_id # cases[c].organization_id} = {}

assign_users_status(u, c, user_ids) ==
    IF ~CaseExists(c) THEN NotFound
    ELSE IF ~assign_users_authorized(u, c) THEN Forbidden
    ELSE IF ~assign_users_valid(c, user_ids) THEN BadRequest
    ELSE OK

\* The loop with the existing_assignment lookup left out
RECURSIVE assignments_created_unchecked(_, _, _, _)
assignments_created_unchecked(rows, c, user_ids, u) ==
    IF user_ids = <<>> THEN rows
    ELSE assignments_created_unchecked(
             rows \cup {[case_id |-> c, user_id |-> Head(user_ids),
                         assigned_by |-> u, assigned_at |-> now]},
             c, Tail(user_ids), u)

\* The loop over user_ids (lines 336-350): a row is added for every id that
\* has no row for this case yet; rows added earlier in the loop count.
RECURSIVE assignments_created(_, _, _, _)
assignments_created(rows, c, user_ids, u) ==
    IF user_ids = <<>> THEN rows
    ELSE LET user_id == Head(user_ids)
             existing_assignment ==
                 \E a \in rows : a.case_id = c /\ a.user_id = user_id
         IN  assignments_created(
                 IF ~existing_assignment
                 THEN rows \cup {[case_id |-> c, user_id |-> user_id,
                                  assigned_by |-> u, assigned_at |-> now]}
                 ELSE rows,
                 c, Tail(user_ids), u)

assign_users_to_case(u, c, user_ids) ==
    LET res == assign_users_status(u, c, user_ids)
        rows == IF res = OK THEN assignments_created(assignments, c, user_ids, u)
                ELSE assignments
    IN  /\ get_current_active_user(u)
        /\ assignments' = rows
        /\ IF rows # assignments
           THEN now < MaxTime /\ now' = now + 1
           ELSE UNCHANGED now
        /\ last' = Response("assign_users_to_case", u, c, None, user_ids, res,
                            {a.user_id : a \in rows \ assignments},
                            Audited(res, "ASSIGN", "Case"))
        /\ UNCHANGED <<users, orgs, cases, evidence, files, caseSeq, evSeq, userUpdates,
                       sessions>>

\* --------------------------------------- cases.py: remove_user_from_case

\* remove_user_from_case's authorization with the organization comparison left out
remove_user_authorized_any_admin(u, c) ==
    users[u].role \in {SUPER_ADMIN, ORG_ADMIN}

remove_user_authorized(u, c) ==
    LET current_user == users[u]
        case == cases[c]
    IN  IF current_user.role = SUPER_ADMIN THEN TRUE
        ELSE IF current_user.role = ORG_ADMIN
        THEN ~(case.organization_id # current_user.organization_id)
        ELSE FALSE

remove_user_status(u, c, user_id) ==
    IF ~CaseExists(c) THEN NotFound
    ELSE IF ~remove_user_authorized(u, c) THEN Forbidden
    ELSE IF ~is_assigned_via_table(c, user_id) THEN NotFound
    ELSE OK

remove_user_from_case(u, c, user_id) ==
    LET res == remove_user_status(u, c, user_id) IN
    /\ get_current_active_user(u)
    /\ IF res = OK
       THEN \E a \in assignments :
                /\ a.case_id = c /\ a.user_id = user_id
                /\ assignments' = assignments \ {a}
       ELSE UNCHANGED assignments
    /\ last' = Response("remove_user_from_case", u, c, user_id, <<>>, res, {},
                        Audited(res, "UNASSIGN", "Case"))
    /\ UNCHANGED <<users, orgs, cases, evidence, files, counters, sessions>>

\* ---------------------------------------- cases.py: get_case_assignments

get_case_assignments_authorized(u, c) ==
    LET current_user == users[u]
        case == cases[c]
    IN  IF current_user.role = SUPER_ADMIN THEN TRUE
        ELSE IF current_user.role = ORG_ADMIN
        THEN ~(case.organization_id # current_user.organization_id)
        ELSE IF current_user.role = STAFF_USER
        THEN ~(/\ case.created_by # u
               /\ case.assigned_to # u
               /\ ~is_assigned_via_table(c, u))
        ELSE IF current_user.role = INDIVIDUAL_USER
        THEN ~(/\ case.created_by # u
               /\ case.assigned_to # u
               /\ ~is_assigned_via_table(c, u))
        ELSE TRUE

get_case_assignments_status(u, c) ==
    IF ~CaseExists(c) THEN NotFound
    ELSE IF ~get_case_assignments_authorized(u, c) THEN Forbidden
    ELSE OK

\* The list the handler returns (lines 443-481): one item per row of the
\* case, then the legacy single assignee if the case has one.
get_case_assignments_result(c) ==
    {[assignment_id |-> "row", user |-> a.user_id, assigned_by |-> a.assigned_by,
      assigned_at |-> a.assigned_at] : a \in {x \in assignments : x.case_id = c}}
    \cup
    (IF cases[c].assigned_to # None
     THEN {[assignment_id |-> "legacy", user |-> cases[c].assigned_to,
            assigned_by |-> None, assigned_at |-> 0]}
     ELSE {})

get_case_assignments(u, c) ==
    LET res == get_case_assignments_status(u, c) IN
    /\ get_current_active_user(u)
    /\ last' = Response("get_case_assignments", u, c, None, <<>>, res,
                        IF res = OK THEN get_case_assignments_result(c) ELSE {},
                        Audited(res, "READ", "CaseAssignment"))
    /\ UNCHANGED <<tables, counters, sessions>>

\* ------------------------------ evidence.py: create_intelligence_evidence

\* The role branch (lines 226-233): TRUE when no 403 is raised.
create_evidence_authorized(u, c) ==
    LET current_user == users[u]
        case == cases[c]
    IN  IF current_user.role = SUPER_ADMIN THEN TRUE
        ELSE IF current_user.role = INDIVIDUAL_USER
        THEN ~(case.created_by # u /\ case.assigned_to # u)
        ELSE ~(/\ case.organization_id # current_user.organization_id
               /\ case.assigned_to # u)

create_intelligence_evidence_status(u, c) ==
    IF ~CaseExists(c) THEN NotFound
    ELSE IF ~create_evidence_authorized(u, c) THEN Forbidden
    ELSE OK

\* intelligence_data is taken to be a valid JSON object.
create_intelligence_evidence(u, c) ==
    LET res == create_intelligence_evidence_status(u, c)
        id == evSeq + 1
    IN  /\ get_current_active_user(u)
        /\ IF res = OK
           THEN /\ evSeq < MaxEvidence
                /\ evidence' = evidence @@ (id :> [case_id |-> c,
                                                   organization_id |-> cases[c].organization_id,
                                                   uploaded_by |-> u,
                                                   file_path |-> NoFile,
                                                   is_verified |-> FALSE])
                /\ evSeq' = id
           ELSE UNCHANGED <<evidence, evSeq>>
        /\ last' = Response("create_intelligence_evidence", u, c, None, <<>>, res, {},
                            Audited(res, "CREATE", "Evidence"))
        /\ UNCHANGED <<users, orgs, cases, assignments, files, caseSeq, now, userUpdates,
                       sessions>>

\* --------------------------------------------- evidence.py: upload, create

\* save_upload_file writes the upload under a name uuid4 never hands out
\* twice; os.remove is kept as FALSE under that name.
save_upload_file(stored) == Append(stored, TRUE)

upload_evidence_status(u, c) ==
    IF ~CaseExists(c) THEN NotFound
    ELSE IF ~create_evidence_authorized(u, c) THEN Forbidden
    ELSE OK

\* The upload directory with the file saved before the role branch is taken
upload_evidence_files_before_check(u, c) ==
    IF CaseExists(c) THEN save_upload_file(files) ELSE files

\* The upload directory after the request: the file is saved (lines 85-94)
\* once the case was found and the role branch passed.
upload_evidence_files(u, c) ==
    IF upload_evidence_status(u, c) = OK THEN save_upload_file(files) ELSE files

\* case_id is taken to be a well-formed UUID.
upload_evidence(u, c) ==
    LET res == upload_evidence_status(u, c)
        id == evSeq + 1
        file_path == Len(files) + 1
    IN  /\ get_current_active_user(u)
        /\ res = OK => evSeq < MaxEvidence /\ Len(files) < MaxFiles
        /\ files' = upload_evidence_files(u, c)
        /\ IF res = OK
           THEN /\ evidence' = evidence @@ (id :> [case_id |-> c,
                                                   organization_id |-> cases[c].organization_id,
                                                   uploaded_by |-> u,
                                                   file_path |-> file_path,
                                                   is_verified |-> FALSE])
                /\ evSeq' = id
           ELSE UNCHANGED <<evidence, evSeq>>
        /\ last' = Response("upload_evidence", u, c, None, <<>>, res, {},
                            Audited(res, "CREATE", "Evidence"))
        /\ UNCHANGED <<users, orgs, cases, assignments, caseSeq, now, userUpdates,
                       sessions>>

\* Evidence(..., tags=tags, ...) at line 190 names a variable the function
\* does not have: every request that passes the role branch ends in a
\* NameError, after its file, if it sent one, was saved.
create_evidence_status(u, c) ==
    IF ~CaseExists(c) THEN NotFound
    ELSE IF ~create_evidence_authorized(u, c) THEN Forbidden
    ELSE ServerError

create_evidence(u, c, file) ==
    LET res == create_evidence_status(u, c) IN
    /\ get_current_active_user(u)
    /\ IF res = ServerError /\ file
       THEN /\ Len(files) < MaxFiles
            /\ files' = save_upload_file(files)
       ELSE UNCHANGED files
    /\ last' = Response("create_evidence", u, c, None, <<>>, res, {},
                        Audited(res, "CREATE", "Evidence"))
    /\ UNCHANGED <<users, orgs, cases, assignments, evidence, counters, sessions>>

\* ----------------------------------------- evidence.py: read, update, delete

\* The organization comparison of read_evidence_for_case (line 310)
read_evidence_for_case_authorized(u, c) ==
    LET current_user == users[u]
        case == cases[c]
    IN  ~(/\ current_user.role # SUPER_ADMIN
          /\ case.organization_id # current_user.organization_id)

read_evidence_for_case_status(u, c) ==
    IF ~CaseExists(c) THEN NotFound
    ELSE IF ~read_evidence_for_case_authorized(u, c) THEN Forbidden
    ELSE OK

read_evidence_for_case(u, c) ==
    LET res == read_evidence_for_case_status(u, c) IN
    /\ get_current_active_user(u)
    /\ last' = Response("read_evidence_for_case", u, c, None, <<>>, res,
                        IF res = OK THEN {e \in DOMAIN evidence : evidence[e].case_id = c}
                        ELSE {},
                        Audited(res, "READ", "Evidence"))
    /\ UNCHANGED <<tables, counters, sessions>>

\* The organization comparison of read_evidence and update_evidence
\* (lines 332, 353)
read_evidence_authorized(u, e) ==
    LET current_user == users[u] IN
    ~(/\ current_user.role # SUPER_ADMIN
      /\ evidence[e].organization_id # current_user.organization_id)

read_evidence_status(u, e) ==
    IF e \notin DOMAIN evidence THEN NotFound
    ELSE IF ~read_evidence_authorized(u, e) THEN Forbidden
    ELSE OK

read_evidence(u, e) ==
    LET res == read_evidence_status(u, e) IN
    /\ get_current_active_user(u)
    /\ last' = Response("read_evidence", u,
                        IF e \in DOMAIN evidence THEN evidence[e].case_id ELSE 0,
                        None, <<e>>, res, {}, Audited(res, "READ", "Evidence"))
    /\ UNCHANGED <<tables, counters, sessions>>

update_evidence_status(u, e) ==
    IF e \notin DOMAIN evidence THEN NotFound
    ELSE IF ~read_evidence_authorized(u, e) THEN Forbidden
    ELSE OK

\* The request body carries is_verified.
update_evidence(u, e, is_verified) ==
    LET res == update_evidence_status(u, e) IN
    /\ get_current_active_user(u)
    /\ IF res = OK
       THEN evidence' = [evidence EXCEPT ![e].is_verified = is_verified]
       ELSE UNCHANGED evidence
    /\ last' = Response("update_evidence", u,
                        IF e \in DOMAIN evidence THEN evidence[e].case_id ELSE 0,
                        None, <<e>>, res, {}, Audited(res, "UPDATE", "Evidence"))
    /\ UNCHANGED <<users, orgs, cases, assignments, files, counters, sessions>>

\* The role branch of delete_evidence (lines 381-389)
delete_evidence_authorized(u, e) ==
    LET current_user == users[u] IN
    IF current_user.role = SUPER_ADMIN THEN TRUE
    ELSE IF current_user.role = ORG_ADMIN
    THEN ~(evidence[e].organization_id # current_user.organization_id)
    ELSE IF /\ current_user.role \in {STAFF_USER, INDIVIDUAL_USER}
            /\ evidence[e].uploaded_by = u
    THEN TRUE
    ELSE FALSE

delete_evidence_status(u, e) ==
    IF e \notin DOMAIN evidence THEN NotFound
    ELSE IF ~delete_evidence_authorized(u, e) THEN Forbidden
    ELSE OK

\* os.remove(evidence.file_path) (lines 392-396), then the row.
delete_evidence(u, e) ==
    LET res == delete_evidence_status(u, e) IN
    /\ get_current_active_user(u)
    /\ IF res = OK
       THEN /\ evidence' = Remove(evidence, e)
            /\ files' = IF evidence[e].file_path # NoFile
                        THEN [files EXCEPT ![evidence[e].file_path] = FALSE]
                        ELSE files
       ELSE UNCHANGED <<evidence, files>>
    /\ last' = Response("delete_evidence", u,
                        IF e \in DOMAIN evidence THEN evidence[e].case_id ELSE 0,
                        None, <<e>>, res, {}, Audited(res, "DELETE", "Evidence"))
    /\ UNCHANGED <<users, orgs, cases, assignments, counters, sessions>>

\* -------------------------------------------------- timestamps and hashes

\* A datetime is its wall-clock reading, whether it is aware, and its UTC
\* offset if it is.  datetime.utcnow(): the naive UTC reading of the clock.
utcnow == [wall |-> now, aware |-> FALSE, offset |-> 0]

\* The offset of the zone astimezone(None) converts to (the server's zone).
LocalTimeZone == 1
\* The offset of the storage session's zone: a naive datetime written to a
\* DateTime(timezone=True) column is read in it.
DbTimeZone == 0

\* The instant a DateTime(timezone=True) column stores for a written value.
db_store(dt) ==
    IF dt.aware THEN dt.wall - dt.offset ELSE dt.wall - DbTimeZone

\* The aware datetime the column gives back for a stored instant.
db_load(instant) ==
    [wall |-> instant + DbTimeZone, aware |-> TRUE, offset |-> DbTimeZone]

\* datetime.isoformat() / datetime.fromisoformat(): the text is the wall
\* reading, followed by the offset if the datetime is aware.
isoformat(dt) ==
    [date |-> dt.wall, suffix |-> IF dt.aware THEN <<dt.offset>> ELSE <<>>]
fromisoformat(text) ==
    IF text.suffix = <<>>
    THEN [wall |-> text.date, aware |-> FALSE, offset |-> 0]
    ELSE [wall |-> text.date, aware |-> TRUE, offset |-> text.suffix[1]]

\* dt.astimezone(datetime.utcnow().tzinfo), i.e. astimezone(None): an aware
\* datetime keeps its instant, a naive one is read as local time.
astimezone_local(dt) ==
    IF dt.aware
    THEN [wall |-> dt.wall - dt.offset + LocalTimeZone, aware |-> TRUE,
          offset |-> LocalTimeZone]
    ELSE [wall |-> dt.wall, aware |-> TRUE, offset |-> LocalTimeZone]

\* dt1 > dt2 on aware datetimes compares instants.
later_than(dt1, dt2) == dt1.wall - dt1.offset > dt2.wall - dt2.offset

\* passlib's bcrypt context: a hash verifies exactly the password it was made of.
get_password_hash(password) == [bcrypt |-> password]
verify_password(plain_password, hashed_password) == hashed_password.bcrypt = plain_password

\* --------------------------------------------------- users.py: update_user

\* user_update is update_data, the dict of the fields the request carries.
Has(update, field) == field \in DOMAIN update
HasValue(update, field) == Has(update, field) /\ update[field] # None

\* The checks the database makes at commit: username is unique, and
\* organization_id is a foreign key to organizations.id.
update_user_integrity(user_id, user_update) ==
    /\ Has(user_update, "username") =>
           \A x \in DOMAIN users : x # user_id => users[x].username # user_update.username
    /\ HasValue(user_update, "organization_id") =>
           user_update.organization_id \in DOMAIN orgs

update_user_status(u, user_id, user_update) ==
    LET current_user == users[u] IN
    IF ~Exists(user_id) THEN NotFound
    ELSE IF /\ u = user_id
            /\ current_user.role = SUPER_ADMIN
            /\ Has(user_update, "is_active") /\ user_update.is_active = FALSE
    THEN BadRequest
    ELSE IF /\ current_user.role = ORG_ADMIN
            /\ current_user.organization_id = None
    THEN BadRequest
    ELSE IF /\ current_user.role = ORG_ADMIN
            /\ \/ users[user_id].organization_id # current_user.organization_id
               \/ /\ Has(user_update, "role")
                  /\ user_update.role \in {SUPER_ADMIN, ORG_ADMIN}
               \/ /\ HasValue(user_update, "organization_id")
                  /\ user_update.organization_id # current_user.organization_id
    THEN Forbidden
    ELSE IF /\ current_user.role \notin {SUPER_ADMIN, ORG_ADMIN}
            /\ u = user_id
            /\ (Has(user_update, "role") \/ HasValue(user_update, "organization_id"))
    THEN Forbidden
    ELSE IF current_user.role \notin {SUPER_ADMIN, ORG_ADMIN} /\ u # user_id
    THEN Forbidden
    ELSE IF ~update_user_integrity(user_id, user_update) THEN ServerError
    ELSE OK

\* The row after the setattr loop (lines 209-222).
update_user_row(row, user_update) ==
    [username |-> IF Has(user_update, "username") THEN user_update.username ELSE row.username,
     role |-> IF Has(user_update, "role") THEN user_update.role ELSE row.role,
     organization_id |-> IF Has(user_update, "organization_id")
                         THEN user_update.organization_id ELSE row.organization_id,
     is_active |-> IF Has(user_update, "is_active") THEN user_update.is_active
                   ELSE row.is_active,
     hashed_password |-> IF Has(user_update, "password")
                         THEN get_password_hash(user_update.password)
                         ELSE row.hashed_password,
     password_changed_at |-> IF Has(user_update, "password") THEN db_store(utcnow)
                             ELSE row.password_changed_at]

update_user(u, user_id, user_update) ==
    LET res == update_user_status(u, user_id, user_update) IN
    /\ get_current_active_user(u)
    /\ IF res = OK
       THEN /\ userUpdates < MaxUserUpdates
            /\ userUpdates' = userUpdates + 1
            /\ users' = [users EXCEPT ![user_id] = update_user_row(@, user_update)]
            /\ IF Has(user_update, "password")
               THEN now < MaxTime /\ now' = now + 1
               ELSE UNCHANGED now
       ELSE UNCHANGED <<users, userUpdates, now>>
    /\ last' = Response("update_user", u, 0, user_id, <<>>, res, DOMAIN user_update,
                        Audited(res, "UPDATE", "User"))
    /\ UNCHANGED <<orgs, cases, assignments, evidence, files, caseSeq, evSeq, sessions>>

\* ----------------------------------------------- audit_log.py: the emitter

\* create_audit_log_entry: the rows the call appends.  A failure of the
\* serialization or of the insert is caught (lines 77-80): no row, no raise.
create_audit_log_entry(written, action, resource_type) ==
    IF written THEN <<AuditEntry(action, resource_type)>> ELSE <<>>

\* --------------------------------------------------- users.py: read_users

read_users_status(u) ==
    LET current_user == users[u] IN
    IF current_user.role = SUPER_ADMIN THEN OK
    ELSE IF current_user.role = ORG_ADMIN
    THEN IF current_user.organization_id = None THEN BadRequest ELSE OK
    ELSE Forbidden

read_users_query(u) ==
    IF users[u].role = SUPER_ADMIN THEN DOMAIN users
    ELSE {x \in DOMAIN users : users[x].organization_id = users[u].organization_id}

read_users(u, written) ==
    LET res == read_users_status(u) IN
    /\ get_current_active_user(u)
    /\ last' = Response("read_users", u, 0, None, <<>>, res,
                        IF res = OK THEN read_users_query(u) ELSE {},
                        create_audit_log_entry(res = OK /\ written, "READ", "User"))
    /\ UNCHANGED <<tables, counters, sessions>>

\* -------------------------------------------------- users.py: create_user

\* organization_id_to_assign (lines 88-92, 121-122)
create_user_organization(u, user_in) ==
    IF user_in.role = INDIVIDUAL_USER THEN None
    ELSE IF users[u].role = ORG_ADMIN /\ user_in.role = STAFF_USER
    THEN users[u].organization_id
    ELSE user_in.organization_id

\* The request carries an e-mail address no row has.
create_user_status(u, user_in) ==
    LET current_user == users[u]
        organization_id_to_assign ==
            IF user_in.role = INDIVIDUAL_USER THEN None ELSE user_in.organization_id
    IN
    IF \E x \in DOMAIN users : users[x].username = user_in.username THEN BadRequest
    ELSE IF user_in.role = INDIVIDUAL_USER /\ user_in.organization_id # None
    THEN BadRequest
    ELSE IF current_user.role = SUPER_ADMIN
    THEN IF user_in.role \in {STAFF_USER, ORG_ADMIN} /\ organization_id_to_assign = None
         THEN BadRequest
         ELSE IF organization_id_to_assign # None
                 /\ organization_id_to_assign \notin DOMAIN orgs
         THEN NotFound
         ELSE OK
    ELSE IF current_user.role = ORG_ADMIN
    THEN IF current_user.organization_id = None THEN BadRequest
         ELSE IF /\ user_in.organization_id # None
                 /\ user_in.organization_id # current_user.organization_id
         THEN Forbidden
         ELSE IF user_in.role \in {SUPER_ADMIN, ORG_ADMIN} THEN Forbidden
         ELSE OK
    ELSE Forbidden

\* The row lines 129-139 insert
create_user_row(u, user_in) ==
    [username |-> user_in.username,
     role |-> user_in.role,
     organization_id |-> create_user_organization(u, user_in),
     is_active |-> user_in.is_active,
     hashed_password |-> get_password_hash(user_in.password),
     password_changed_at |-> db_store(utcnow)]

\* uuid4 hands out an id no row has
create_user(u, user_in, written) ==
    LET res == create_user_status(u, user_in)
        free == UserIds \ DOMAIN users
        id == CHOOSE x \in free : TRUE
    IN  /\ get_current_active_user(u)
        /\ IF res = OK
           THEN /\ free # {}
                /\ users' = users @@ (id :> create_user_row(u, user_in))
           ELSE UNCHANGED users
        /\ last' = Response("create_user", u, 0, IF res = OK THEN id ELSE None, <<>>,
                            res, {},
                            create_audit_log_entry(res = OK /\ written, "CREATE", "User"))
        /\ UNCHANGED <<orgs, cases, assignments, evidence, files, counters, sessions>>

\* -------------------------------------------------- users.py: delete_user

\* db.delete(user) at the flush: the rows of the relationships without a
\* delete cascade get their foreign key set to NULL, which cases.created_by
\* and case_assignments.user_id (nullable=False) refuse.
delete_user_integrity(user_id) ==
    /\ \A c \in DOMAIN cases : cases[c].created_by # user_id
    /\ \A a \in assignments : a.user_id # user_id

delete_user_status(u, user_id) ==
    LET current_user == users[u] IN
    IF ~Exists(user_id) THEN NotFound
    ELSE IF u = user_id THEN BadRequest
    ELSE IF current_user.role = ORG_ADMIN /\ current_user.organization_id = None
    THEN BadRequest
    ELSE IF /\ current_user.role = ORG_ADMIN
            /\ \/ users[user_id].organization_id # current_user.organization_id
               \/ users[user_id].role \in {SUPER_ADMIN, ORG_ADMIN}
    THEN Forbidden
    ELSE IF current_user.role \notin {SUPER_ADMIN, ORG_ADMIN} THEN Forbidden
    ELSE IF ~delete_user_integrity(user_id) THEN ServerError
    ELSE OK

\* The tables without the users of the set gone: their rows deleted, the
\* nullable references to them (ondelete SET NULL) set to NULL.
cases_without_users(gone) ==
    [c \in DOMAIN cases |->
        IF cases[c].assigned_to \in gone
        THEN [cases[c] EXCEPT !.assigned_to = None] ELSE cases[c]]

assignments_without_users(gone) ==
    {IF a.assigned_by \in gone THEN [a EXCEPT !.assigned_by = None] ELSE a :
        a \in assignments}

evidence_without_users(gone) ==
    [e \in DOMAIN evidence |->
        IF evidence[e].uploaded_by \in gone
        THEN [evidence[e] EXCEPT !.uploaded_by = None] ELSE evidence[e]]

users_without(gone) == [x \in (DOMAIN users) \ gone |-> users[x]]

delete_user(u, user_id, written) ==
    LET res == delete_user_status(u, user_id) IN
    /\ get_current_active_user(u)
    /\ IF res = OK
       THEN /\ users' = users_without({user_id})
            /\ cases' = cases_without_users({user_id})
            /\ assignments' = assignments_without_users({user_id})
            /\ evidence' = evidence_without_users({user_id})
       ELSE UNCHANGED <<users, cases, assignments, evidence>>
    /\ last' = Response("delete_user", u, 0, user_id, <<>>, res, {},
                        create_audit_log_entry(res = OK /\ written, "DELETE", "User"))
    /\ UNCHANGED <<orgs, files, counters, sessions>>

\* ------------------------------------------------------- organizations.py

\* The ids uuid4 hands out to the organizations created later on
NewOrgIds == {"C"}
OrgNames == OrgIds \cup NewOrgIds

\* get_current_active_super_admin (deps.py)
get_current_active_super_admin(u) == users[u].role = SUPER_ADMIN

members_of(org_id) == {x \in DOMAIN users : users[x].organization_id = org_id}

name_taken(name, except) ==
    \E o \in (DOMAIN orgs) \ except : orgs[o].name = name

create_organization_status(u, org_in) ==
    IF ~get_current_active_super_admin(u) THEN Forbidden
    ELSE IF name_taken(org_in.name, {}) THEN BadRequest
    ELSE OK

create_organization(u, org_in, written) ==
    LET res == create_organization_status(u, org_in)
        free == (OrgIds \cup NewOrgIds) \ DOMAIN orgs
        id == CHOOSE o \in free : TRUE
    IN  /\ get_current_active_user(u)
        /\ IF res = OK
           THEN /\ free # {}
                /\ orgs' = orgs @@ (id :> [name |-> org_in.name,
                                           is_active |-> org_in.is_active])
           ELSE UNCHANGED orgs
        /\ last' = Response("create_organization", u, 0, None,
                            IF res = OK THEN <<id>> ELSE <<>>, res, {},
                            create_audit_log_entry(res = OK /\ written,
                                                   "CREATE", "Organization"))
        /\ UNCHANGED <<users, cases, assignments, evidence, files, counters, sessions>>

read_organizations_status(u) ==
    IF ~get_current_active_super_admin(u) THEN Forbidden ELSE OK

read_organizations(u, written) ==
    LET res == read_organizations_status(u) IN
    /\ get_current_active_user(u)
    /\ last' = Response("read_organizations", u, 0, None, <<>>, res,
                        IF res = OK THEN DOMAIN orgs ELSE {},
                        create_audit_log_entry(res = OK /\ written,
                                               "READ", "Organization"))
    /\ UNCHANGED <<tables, counters, sessions>>

read_organizations_simple_status(u) ==
    IF users[u].role \notin {SUPER_ADMIN, ORG_ADMIN} THEN Forbidden ELSE OK

read_organizations_simple(u, written) ==
    LET res == read_organizations_simple_status(u) IN
    /\ get_current_active_user(u)
    /\ last' = Response("read_organizations_simple", u, 0, None, <<>>, res,
                        IF res = OK THEN {o \in DOMAIN orgs : orgs[o].is_active}
                        ELSE {},
                        create_audit_log_entry(res = OK /\ written,
                                               "READ", "Organization"))
    /\ UNCHANGED <<tables, counters, sessions>>

read_organization_status(u, org_id) ==
    IF ~get_current_active_super_admin(u) THEN Forbidden
    ELSE IF org_id \notin DOMAIN orgs THEN NotFound
    ELSE OK

read_organization(u, org_id, written) ==
    LET res == read_organization_status(u, org_id) IN
    /\ get_current_active_user(u)
    /\ last' = Response("read_organization", u, 0, None, <<org_id>>, res,
                        IF res = OK THEN {org_id} ELSE {},
                        create_audit_log_entry(res = OK /\ written,
                                               "READ", "Organization"))
    /\ UNCHANGED <<tables, counters, sessions>>

\* ------------------------------------ organizations.py: update_organization

\* Where the request can fail: the insert of the cascade's audit row, the
\* handler's commit, the insert of the handler's audit row.
UpdateFailPoints == {"none", "cascade_audit", "commit", "audit"}

\* Lines 112: the update turns an active organization inactive
cascades(org_id, org_update) ==
    /\ Has(org_update, "is_active")
    /\ org_update.is_active = FALSE
    /\ orgs[org_id].is_active

\* Query.update returns the rows the WHERE clause matched (line 114)
affected_users(org_id) == Cardinality(members_of(org_id))

\* The users table after lines 114-119.  The UPDATE is pending when the
\* emitter runs: the emitter's commit (audit_log.py:72) makes it permanent
\* together with the audit row, the emitter's rollback (audit_log.py:78)
\* undoes it.
users_after_cascade(org_id, org_update, fail) ==
    IF cascades(org_id, org_update) /\ fail # "cascade_audit"
    THEN [x \in DOMAIN users |->
            IF x \in members_of(org_id)
            THEN [users[x] EXCEPT !.is_active = FALSE] ELSE users[x]]
    ELSE users

cascade_audit(org_id, org_update, fail) ==
    IF cascades(org_id, org_update) /\ fail # "cascade_audit"
    THEN <<[action |-> "UPDATE", resource_type |-> "User",
            affected_users_count |-> affected_users(org_id)]>>
    ELSE <<>>

\* The commit of line 124: organizations.name is unique
update_organization_committed(org_id, org_update, fail) ==
    /\ fail # "commit"
    /\ Has(org_update, "name") => ~name_taken(org_update.name, {org_id})

update_organization_status(u, org_id, org_update, fail) ==
    IF ~get_current_active_super_admin(u) THEN Forbidden
    ELSE IF org_id \notin DOMAIN orgs THEN NotFound
    ELSE IF ~update_organization_committed(org_id, org_update, fail) THEN ServerError
    ELSE OK

update_organization_row(row, org_update) ==
    [name |-> IF Has(org_update, "name") THEN org_update.name ELSE row.name,
     is_active |-> IF Has(org_update, "is_active") THEN org_update.is_active
                   ELSE row.is_active]

update_organization(u, org_id, org_update, fail) ==
    LET res == update_organization_status(u, org_id, org_update, fail) IN
    /\ get_current_active_user(u)
    /\ IF res \in {OK, ServerError}
       THEN /\ users' = users_after_cascade(org_id, org_update, fail)
            /\ orgs' = IF res = OK
                       THEN [orgs EXCEPT ![org_id] = update_organization_row(@, org_update)]
                       ELSE orgs
            /\ last' = Response("update_organization", u, 0, None, <<org_id>>, res,
                                DOMAIN org_update,
                                cascade_audit(org_id, org_update, fail)
                                \o create_audit_log_entry(res = OK /\ fail # "audit",
                                                          "UPDATE", "Organization"))
       ELSE /\ UNCHANGED <<users, orgs>>
            /\ last' = Response("update_organization", u, 0, None, <<org_id>>, res,
                                DOMAIN org_update, <<>>)
    /\ UNCHANGED <<cases, assignments, evidence, files, counters, sessions>>

\* ------------------------------------ organizations.py: delete_organization

\* db.delete(user) for every member and db.delete(organization) at the
\* flush: the members' rows as in delete_user, and cases.organization_id and
\* evidence.organization_id (nullable=False) refuse the NULL the
\* relationships without a delete cascade are given.
delete_organization_integrity(org_id) ==
    /\ \A x \in members_of(org_id) : delete_user_integrity(x)
    /\ \A c \in DOMAIN cases : cases[c].organization_id # org_id
    /\ \A e \in DOMAIN evidence : evidence[e].organization_id # org_id

delete_organization_status(u, org_id) ==
    IF ~get_current_active_super_admin(u) THEN Forbidden
    ELSE IF org_id \notin DOMAIN orgs THEN NotFound
    ELSE IF ~delete_organization_integrity(org_id) THEN ServerError
    ELSE OK

\* The audit row names the actor and the actor's organization (foreign
\* keys): the insert fails when the request deleted one of them.
delete_organization(u, org_id, written) ==
    LET res == delete_organization_status(u, org_id)
        gone == members_of(org_id)
    IN  /\ get_current_active_user(u)
        /\ IF res = OK
           THEN /\ users' = users_without(gone)
                /\ orgs' = Remove(orgs, org_id)
                /\ cases' = cases_without_users(gone)
                /\ assignments' = assignments_without_users(gone)
                /\ evidence' = evidence_without_users(gone)
           ELSE UNCHANGED tables
        /\ last' = Response("delete_organization", u, 0, None, <<org_id>>, res, {},
                            create_audit_log_entry(res = OK /\ written /\ u \notin gone,
                                                   "DELETE", "Organization"))
        /\ UNCHANGED <<files, counters, sessions>>

\* ------------------------------------------ audit_log.py: the requester IP

\* Python's `a or b` on strings: a if it is non-empty, else b.
Or(a, b) == IF a # "" THEN a ELSE b

\* str.strip() on the hops the requests carry
strip(text) ==
    IF text = " " THEN ""
    ELSE IF text = " 10.0.0.1 " THEN "10.0.0.1"
    ELSE text

\* The ip_address create_audit_log_entry stores (lines 47-57).  request is
\* the set holding the Request the handler passed, or {} for None; a header
\* is "" where headers.get falls back to its default, and X-Forwarded-For is
\* held as the list split(",") makes of it.  The conditional expression
\* binds weaker than `or`: the whole chain is its first branch.
ip_address(request) ==
    IF request = {} THEN "127.0.0.1"
    ELSE LET r == CHOOSE x \in request : TRUE IN
         IF r.client # None
         THEN Or(Or(strip(r.x_forwarded_for[1]), r.x_real_ip), r.client)
         ELSE "127.0.0.1"

\* A handler writes its audit row for user u: the row's action and ip_address.
audit_log(u, action, request) ==
    /\ get_current_active_user(u)
    /\ last' = [op |-> "create_audit_log_entry", actor |-> u, case |-> 0, user |-> None,
                batch |-> <<>>, res |-> OK, listed |-> {},
                audit |-> <<[action |-> action, resource_type |-> "Case",
                             ip_address |-> ip_address(request)]>>,
                request |-> request]
    /\ UNCHANGED <<tables, counters, sessions>>

\* ------------------------------------------------------------ the server

\* The response leaves the server; the next request can be served.
Respond ==
    /\ last # NoRequest
    /\ last' = NoRequest
    /\ UNCHANGED <<tables, counters, sessions>>

UserRow(username, role, organization_id, is_active) ==
    [username |-> username, role |-> role, organization_id |-> organization_id,
     is_active |-> is_active, hashed_password |-> get_password_hash("p1"),
     password_changed_at |-> 0]

\* The tables after the installation and the first user-management
\* requests: create_admin.py's Super Admin, two organizations, the members
\* a Super Admin created for them with create_user, one of them deactivated
\* since with update_user.  No user row has the id "ghost".
SeedUsers ==
    [u \in UserIds \ {"ghost"} |->
        CASE u = "root" -> UserRow("n_root", SUPER_ADMIN, None, TRUE)
          [] u = "adminA" -> UserRow("n_adminA", ORG_ADMIN, "A", TRUE)
          [] u = "staffA" -> UserRow("n_staffA", STAFF_USER, "A", TRUE)
          [] u = "staffB" -> UserRow("n_staffB", STAFF_USER, "B", TRUE)
          [] u = "indiv" -> UserRow("n_indiv", INDIVIDUAL_USER, None, TRUE)
          [] u = "retired" -> UserRow("n_retired", STAFF_USER, "A", FALSE)]

SeedOrgs == [o \in OrgIds |-> [name |-> o, is_active |-> TRUE]]

Init ==
    /\ users = SeedUsers
    /\ orgs = SeedOrgs
    /\ cases = <<>>
    /\ assignments = {}
    /\ evidence = <<>>
    /\ files = <<>>
    /\ caseSeq = 0
    /\ evSeq = 0
    /\ now = 1
    /\ userUpdates = 0
    /\ tokens = {}
    /\ password_reset_tokens = <<>>
    /\ confirming = {}
    /\ last = NoRequest

\* The request bodies the clients send
CaseUpdates ==
    {[assigned_to |-> a, status |-> Unset] : a \in UserIds \cup {None}}
    \cup {[assigned_to |-> Unset, status |-> st] : st \in CaseStatus}

RECURSIVE SeqsUpTo(_, _)
SeqsUpTo(S, n) ==
    IF n = 0 THEN {<<>>}
    ELSE SeqsUpTo(S, n - 1)
         \cup {Append(q, x) : q \in {r \in SeqsUpTo(S, n - 1) : Len(r) = n - 1}, x \in S}

\* The users the assignment requests name
AssignableInputs == {"staffA", "staffB", "retired", "ghost"}

Batches == SeqsUpTo(AssignableInputs, MaxBatch)

Request ==
    \E u \in UserIds :
        \/ \E o \in OrgIds \cup {None} : create_case(u, o)
        \/ \E c \in CaseIds : read_case(u, c)
        \/ read_cases(u)
        \/ \E c \in CaseIds, upd \in CaseUpdates : update_case(u, c, upd)
        \/ \E c \in CaseIds, f \in FailPoints : delete_case(u, c, f)
        \/ \E c \in CaseIds, b \in Batches : assign_users_to_case(u, c, b)
        \/ \E c \in CaseIds, x \in UserIds : remove_user_from_case(u, c, x)
        \/ \E c \in CaseIds : get_case_assignments(u, c)
        \/ \E c \in CaseIds : create_intelligence_evidence(u, c)

Next == (last = NoRequest /\ Request) \/ Respond

Spec == Init /\ [][Next]_vars

\* ------------------------------------------------------ the assignments

\* The requests that write and read the assignment table
RequestAssign ==
    \E u \in UserIds :
        \/ \E o \in OrgIds \cup {None} : create_case(u, o)
        \/ \E c \in CaseIds : read_case(u, c)
        \/ \E c \in CaseIds, b \in Batches : assign_users_to_case(u, c, b)
        \/ \E c \in CaseIds, x \in UserIds : remove_user_from_case(u, c, x)
        \/ \E c \in CaseIds : get_case_assignments(u, c)

NextAssign == (last = NoRequest /\ RequestAssign) \/ Respond

SpecAssign == Init /\ [][NextAssign]_vars

\* ------------------------------------------------------------ the cascade

\* The requests that give a case children and delete it
RequestDelete ==
    \E u \in UserIds :
        \/ \E o \in OrgIds \cup {None} : create_case(u, o)
        \/ \E c \in CaseIds : create_intelligence_evidence(u, c)
        \/ \E c \in CaseIds, x \in {"staffA", "adminA"} :
               assign_users_to_case(u, c, <<x>>)
        \/ \E c \in CaseIds, f \in FailPoints : delete_case(u, c, f)

NextDelete == (last = NoRequest /\ RequestDelete) \/ Respond

SpecDelete == Init /\ [][NextDelete]_vars

\* ------------------------------------------------------------ the tenants

\* The requests of the case router on cases of both organizations, with
\* the arguments that make each of them succeed and fail
TenantActors == {"root", "adminA", "staffB"}

TenantUpdates ==
    {[assigned_to |-> "staffB", status |-> Unset],
     [assigned_to |-> Unset, status |-> CLOSED]}

RequestTenant ==
    \E u \in TenantActors :
        \/ \E o \in OrgIds \cup {None} : create_case(u, o)
        \/ \E c \in CaseIds : read_case(u, c)
        \/ \E c \in CaseIds, upd \in TenantUpdates : update_case(u, c, upd)
        \/ \E c \in CaseIds : delete_case(u, c, "none")
        \/ \E c \in CaseIds, x \in {"staffB", "ghost"} :
               assign_users_to_case(u, c, <<x>>)
        \/ \E c \in CaseIds : remove_user_from_case(u, c, "staffB")
        \/ \E c \in CaseIds : get_case_assignments(u, c)

NextTenant == (last = NoRequest /\ RequestTenant) \/ Respond

SpecTenant == Init /\ [][NextTenant]_vars

\* ------------------------------------------------- the access decisions

\* The tables the access decisions are taken on: one case of either
\* organization with any creator and any legacy assignee, any set of
\* assignment rows for it, with or without evidence, and an acting user
\* "staffA" of any role and organization.  update_user (a Super Admin
\* changing role or organization_id) and update_case (assigned_to) lead to
\* each of them.
DecisionSubjects == {"staffA", "staffB"}

InitDecide ==
    /\ \E r \in UserRole, o \in OrgIds \cup {None} :
           users = [SeedUsers EXCEPT !["staffA"].role = r,
                                     !["staffA"].organization_id = o]
    /\ orgs = SeedOrgs
    /\ \E o \in OrgIds, creator \in DOMAIN SeedUsers,
          assignee \in DecisionSubjects \cup {None} :
           cases = (1 :> [organization_id |-> o, created_by |-> creator,
                          assigned_to |-> assignee, status |-> OPEN])
    /\ \E S \in SUBSET DecisionSubjects :
           assignments = {[case_id |-> 1, user_id |-> x, assigned_by |-> "root",
                           assigned_at |-> 0] : x \in S}
    /\ \E n \in 0..MaxEvidence :
           /\ evidence = [e \in 1..n |-> [case_id |-> 1,
                                          organization_id |-> cases[1].organization_id,
                                          uploaded_by |-> cases[1].created_by,
                                          file_path |-> NoFile,
                                          is_verified |-> FALSE]]
           /\ evSeq = n
    /\ files = <<>>
    /\ caseSeq = 1
    /\ now = 1
    /\ userUpdates = 0
    /\ tokens = {}
    /\ password_reset_tokens = <<>>
    /\ confirming = {}
    /\ last = NoRequest

RequestDecide ==
    \E u \in UserIds, c \in CaseIds :
        \/ read_case(u, c)
        \/ \E upd \in CaseUpdates : update_case(u, c, upd)
        \/ \E f \in FailPoints : delete_case(u, c, f)

NextDecide == (last = NoRequest /\ RequestDecide) \/ Respond

SpecDecide == InitDecide /\ [][NextDecide]_vars

\* ------------------------------------------- security.py, auth.py: login

\* Lifetimes, in clock ticks of one hour
AccessTokenLifetime == 8
ResetLifetime == 1

\* The claims create_access_token signs into the token.
create_access_token(subject, role, organization_id, password_changed_at) ==
    [sub |-> subject, role |-> role, organization_id |-> organization_id,
     password_changed_at |-> isoformat(password_changed_at),
     exp |-> now + AccessTokenLifetime]

\* db.query(User).filter(User.username == username).first(), or None
user_by_username(username) ==
    IF \E x \in DOMAIN users : users[x].username = username
    THEN CHOOSE x \in DOMAIN users : users[x].username = username
    ELSE None

authenticate_user(username, password) ==
    LET user == user_by_username(username) IN
    IF user = None THEN None
    ELSE IF ~verify_password(password, users[user].hashed_password) THEN None
    ELSE user

login_status(username, password) ==
    LET user == authenticate_user(username, password) IN
    IF user = None THEN Unauthorized
    ELSE IF ~users[user].is_active THEN BadRequest
    ELSE OK

\* A token in a client's hands: the signed claims, and for the record the
\* user it was issued to and the password hash that user had then.
login_for_access_token(username, password) ==
    LET res == login_status(username, password)
        user == authenticate_user(username, password)
    IN  /\ IF res = OK
           THEN /\ Cardinality(tokens) < MaxTokens
                /\ tokens' = tokens \cup
                       {[jwt |-> create_access_token(
                                     users[user].username, users[user].role,
                                     users[user].organization_id,
                                     db_load(users[user].password_changed_at)),
                         holder |-> user,
                         secret |-> users[user].hashed_password]}
           ELSE UNCHANGED tokens
        /\ last' = Response("login", IF res = OK THEN user ELSE None, 0, None, <<>>,
                            res, {}, <<>>)
        /\ UNCHANGED <<tables, counters, password_reset_tokens, confirming>>

\* ------------------------------------------ deps.py: get_current_user

\* The user a token resolves to, or None where a 401 is raised.
get_current_user(jwt) ==
    LET user == user_by_username(jwt.sub) IN
    IF now > jwt.exp THEN None
    ELSE IF user = None THEN None
    ELSE IF \/ users[user].role # jwt.role
            \/ users[user].organization_id # jwt.organization_id
    THEN None
    ELSE IF later_than(astimezone_local(db_load(users[user].password_changed_at)),
                       astimezone_local(fromisoformat(jwt.password_changed_at)))
    THEN None
    ELSE user

\* A request to a protected operation whose token raises the 401
rejected(t) ==
    /\ get_current_user(t.jwt) = None
    /\ last' = Response("rejected", t.holder, 0, None, <<>>, Unauthorized, {}, <<>>)
    /\ UNCHANGED <<tables, counters, sessions>>

\* A request whose token resolves to a user who is not active (line 89)
inactive(t) ==
    /\ get_current_user(t.jwt) # None
    /\ ~users[get_current_user(t.jwt)].is_active
    /\ last' = Response("inactive", get_current_user(t.jwt), 0, None, <<>>,
                        BadRequest, {}, <<>>)
    /\ UNCHANGED <<tables, counters, sessions>>

\* ---------------------------------------- users.py: the password changes

\* The two assignments every password change makes before its commit
set_password(row, new_password) ==
    [row EXCEPT !.hashed_password = get_password_hash(new_password),
                !.password_changed_at = db_store(utcnow)]

change_password_status(u, current_password) ==
    IF ~verify_password(current_password, users[u].hashed_password) THEN BadRequest
    ELSE OK

change_password(u, current_password, new_password) ==
    LET res == change_password_status(u, current_password) IN
    /\ get_current_active_user(u)
    /\ IF res = OK
       THEN /\ now < MaxTime
            /\ now' = now + 1
            /\ users' = [users EXCEPT ![u] = set_password(@, new_password)]
       ELSE UNCHANGED <<users, now>>
    /\ last' = Response("change_password", u, 0, u, <<>>, res, {},
                        Audited(res, "UPDATE", "User"))
    /\ UNCHANGED <<orgs, cases, assignments, evidence, files, caseSeq, evSeq, userUpdates,
                   sessions>>

admin_reset_password_status(u, admin_password, user_id) ==
    LET current_user == users[u] IN
    IF ~verify_password(admin_password, current_user.hashed_password) THEN BadRequest
    ELSE IF current_user.role \notin {SUPER_ADMIN, ORG_ADMIN} THEN Forbidden
    ELSE IF ~Exists(user_id) THEN NotFound
    ELSE IF current_user.role = ORG_ADMIN /\ current_user.organization_id = None
    THEN BadRequest
    ELSE IF /\ current_user.role = ORG_ADMIN
            /\ \/ users[user_id].organization_id # current_user.organization_id
               \/ users[user_id].role \in {SUPER_ADMIN, ORG_ADMIN}
    THEN Forbidden
    ELSE OK

admin_reset_password(u, admin_password, user_id, new_password) ==
    LET res == admin_reset_password_status(u, admin_password, user_id) IN
    /\ get_current_active_user(u)
    /\ IF res = OK
       THEN /\ now < MaxTime
            /\ now' = now + 1
            /\ users' = [users EXCEPT ![user_id] = set_password(@, new_password)]
       ELSE UNCHANGED <<users, now>>
    /\ last' = Response("admin_reset_password", u, 0, user_id, <<>>, res, {},
                        Audited(res, "UPDATE", "User"))
    /\ UNCHANGED <<orgs, cases, assignments, evidence, files, caseSeq, evSeq, userUpdates,
                   sessions>>

\* password_reset_tokens maps every reset token handed out to its data;
\* secrets.token_urlsafe never hands out a token twice, so `del` is kept as
\* live = FALSE and the next token is a new key.  The request names the
\* user by email address.
request_password_reset(user_id) ==
    LET token == Len(password_reset_tokens) + 1 IN
    /\ IF Exists(user_id)
       THEN /\ token <= MaxResets
            /\ password_reset_tokens' = Append(password_reset_tokens,
                   [user_id |-> user_id, expires |-> now + ResetLifetime, live |-> TRUE])
       ELSE UNCHANGED password_reset_tokens
    /\ last' = Response("request_password_reset", None, 0, user_id, <<>>, OK, {}, <<>>)
    /\ UNCHANGED <<tables, counters, tokens, confirming>>

confirm_password_reset_status(token) ==
    IF ~(token \in DOMAIN password_reset_tokens /\ password_reset_tokens[token].live)
    THEN BadRequest
    ELSE IF now > password_reset_tokens[token].expires THEN BadRequest
    ELSE IF ~Exists(password_reset_tokens[token].user_id) THEN NotFound
    ELSE OK

confirm_password_reset(token, new_password) ==
    LET res == confirm_password_reset_status(token)
        known == token \in DOMAIN password_reset_tokens /\ password_reset_tokens[token].live
        user_id == password_reset_tokens[token].user_id
    IN  /\ IF res = OK
           THEN /\ now < MaxTime
                /\ now' = now + 1
                /\ users' = [users EXCEPT ![user_id] = set_password(@, new_password)]
           ELSE UNCHANGED <<users, now>>
        /\ IF known /\ res # NotFound
           THEN password_reset_tokens' =
                    [password_reset_tokens EXCEPT ![token].live = FALSE]
           ELSE UNCHANGED password_reset_tokens
        /\ last' = Response("confirm_password_reset", IF res = OK THEN user_id ELSE None,
                            0, IF known THEN user_id ELSE None, <<>>, res, {},
                            Audited(res, "UPDATE", "User"))
        /\ UNCHANGED <<orgs, cases, assignments, evidence, files, caseSeq, evSeq, userUpdates,
                       tokens, confirming>>

\* confirm_password_reset is a plain `def`, which the server runs on a
\* thread of its pool: several requests run it at the same time and
\* password_reset_tokens is shared by them with no lock.  A request first
\* looks its token up (line 380); from there to its `del` (line 388 or
\* 402) the other requests take their steps.  confirm_password_reset
\* above is the request that meets no other one in between.
confirm_password_reset_get(token, new_password) ==
    LET known == token \in DOMAIN password_reset_tokens /\ password_reset_tokens[token].live
        request == [token |-> token, new_password |-> new_password]
    IN  /\ IF known
           THEN /\ request \notin confirming
                /\ Cardinality(confirming) < MaxConfirms
                /\ confirming' = confirming \cup {request}
                /\ UNCHANGED last
           ELSE /\ last' = Response("confirm_password_reset", None, 0, None, <<token>>,
                                    BadRequest, {}, <<>>)
                /\ UNCHANGED confirming
        /\ UNCHANGED <<tables, counters, tokens, password_reset_tokens>>

\* Lines 387-409 of the request, holding the token_data it read: `del` of
\* a key another request has deleted raises KeyError, which the server
\* answers with 500, after the commit of line 400.
confirm_password_reset_finish(request) ==
    LET token == request.token
        token_data == password_reset_tokens[token]
        user_id == token_data.user_id
        expired == now > token_data.expires
        found == Exists(user_id)
        deleted == ~password_reset_tokens[token].live
        res == IF expired THEN (IF deleted THEN ServerError ELSE BadRequest)
               ELSE IF ~found THEN NotFound
               ELSE IF deleted THEN ServerError
               ELSE OK
    IN  /\ request \in confirming
        /\ confirming' = confirming \ {request}
        /\ IF ~expired /\ found
           THEN /\ now < MaxTime
                /\ now' = now + 1
                /\ users' = [users EXCEPT ![user_id] = set_password(@, request.new_password)]
           ELSE UNCHANGED <<users, now>>
        /\ IF expired \/ found
           THEN password_reset_tokens' =
                    [password_reset_tokens EXCEPT ![token].live = FALSE]
           ELSE UNCHANGED password_reset_tokens
        /\ last' = Response("confirm_password_reset", IF res = OK THEN user_id ELSE None,
                            0, user_id, <<token>>, res, {},
                            Audited(res, "UPDATE", "User"))
        /\ UNCHANGED <<orgs, cases, assignments, evidence, files, caseSeq, evSeq, userUpdates,
                       tokens>>

\* Time passes.
Tick ==
    /\ last = NoRequest
    /\ now < MaxTime
    /\ now' = now + 1
    /\ UNCHANGED <<tables, caseSeq, evSeq, userUpdates, sessions, last>>

\* --------------------------------------------------------- the sessions

\* The tables the sessions start from: the seeded users, the second Staff
\* user of organization A not yet deactivated.
InitSession ==
    /\ users = [SeedUsers EXCEPT !["retired"].is_active = TRUE]
    /\ orgs = SeedOrgs
    /\ cases = <<>>
    /\ assignments = {}
    /\ evidence = <<>>
    /\ files = <<>>
    /\ caseSeq = 0
    /\ evSeq = 0
    /\ now = 1
    /\ userUpdates = 0
    /\ tokens = {}
    /\ password_reset_tokens = <<>>
    /\ confirming = {}
    /\ last = NoRequest

\* The request bodies the clients send
LoginNames == {"n_staffA", "n_root"}
SessionTargets == {"staffA", "retired"}
SessionUserUpdates ==
    {[username |-> n] : n \in {"n_staffA", "n_free"}}
    \cup {[password |-> p] : p \in Passwords}
    \cup {[is_active |-> FALSE]}

RequestSession ==
    \/ \E n \in LoginNames, p \in Passwords : login_for_access_token(n, p)
    \/ \E t \in tokens : rejected(t)
    \/ \E t \in tokens : inactive(t)
    \/ \E t \in tokens :
          LET u == get_current_user(t.jwt) IN
          /\ u # None
          /\ \/ \E p \in Passwords, q \in Passwords : change_password(u, p, q)
             \/ \E p \in Passwords, x \in SessionTargets, q \in Passwords :
                    admin_reset_password(u, p, x, q)
             \/ \E x \in SessionTargets, upd \in SessionUserUpdates :
                    update_user(u, x, upd)
             \/ read_cases(u)
             \/ create_case(u, None)
    \/ \E x \in SessionTargets : request_password_reset(x)
    \/ \E k \in 1..MaxResets, q \in Passwords : confirm_password_reset(k, q)

NextSession == (last = NoRequest /\ RequestSession) \/ Respond \/ Tick

SpecSession == InitSession /\ [][NextSession]_vars

\* ---------------------------------------------------- the password resets

\* Reset tokens are requested for a Staff user and confirmed by requests
\* that run at the same time, while the clock passes the tokens' expiry
\* and the user logs in with the passwords.
ResetTargets == {"staffA"}

RequestReset ==
    \/ \E x \in ResetTargets : request_password_reset(x)
    \/ \E k \in 1..MaxResets, q \in Passwords : confirm_password_reset_get(k, q)
    \/ \E request \in confirming : confirm_password_reset_finish(request)
    \/ \E p \in Passwords : login_for_access_token("n_staffA", p)

NextReset == (last = NoRequest /\ RequestReset) \/ Respond \/ Tick

SpecReset == InitSession /\ [][NextReset]_vars

\* ------------------------------------------------------ the administration

\* The requests of the user router, sent by a Super Admin, an Org Admin and
\* a Staff user on the seeded tables.
AdminActors == {"root", "adminA", "staffA"}

UserInputs ==
    {[username |-> "n_new", role |-> r, organization_id |-> o, is_active |-> TRUE,
      password |-> "p1"] : r \in UserRole, o \in {None, "B"}}
    \cup {[username |-> "n_staffA", role |-> STAFF_USER, organization_id |-> "A",
           is_active |-> TRUE, password |-> "p1"]}

AdminUserUpdates ==
    {[role |-> r] : r \in {SUPER_ADMIN, ORG_ADMIN, INDIVIDUAL_USER}}
    \cup {[organization_id |-> o] : o \in {None, "B"}}
    \cup {[is_active |-> FALSE]}

AdminTargets == {"root", "staffA", "staffB"}

RequestUsers ==
    \E u \in AdminActors :
        \/ read_users(u, TRUE)
        \/ \E user_in \in UserInputs : create_user(u, user_in, TRUE)
        \/ \E x \in AdminTargets, upd \in AdminUserUpdates : update_user(u, x, upd)
        \/ \E x \in {"staffA", "staffB"} : delete_user(u, x, TRUE)
        \/ admin_reset_password(u, "p1", "staffB", "p2")

NextUsers == (last = NoRequest /\ RequestUsers) \/ Respond

SpecUsers == Init /\ [][NextUsers]_vars

\* The requests of the organization router, with the audit store working
\* or not, and the update_user requests that change who is a member.
OrganizationUpdates ==
    {[is_active |-> b] : b \in BOOLEAN} \cup {[name |-> "B"]}

MemberUpdates ==
    {[organization_id |-> "A"], [is_active |-> FALSE]}

RequestOrgs ==
    \E u \in AdminActors, written \in BOOLEAN :
        \/ \E n \in {"A", "C"} :
               create_organization(u, [name |-> n, is_active |-> TRUE], written)
        \/ read_organizations(u, written)
        \/ read_organizations_simple(u, written)
        \/ \E o \in {"A", "C"} : read_organization(u, o, written)
        \/ /\ written
           /\ \E o \in {"A", "C"}, upd \in OrganizationUpdates, f \in UpdateFailPoints :
                  update_organization(u, o, upd, f)
        \/ \E o \in {"A", "B"} : delete_organization(u, o, written)
        \/ /\ written
           /\ \E x \in {"root", "staffB"}, upd \in MemberUpdates : update_user(u, x, upd)

NextOrgs == (last = NoRequest /\ RequestOrgs) \/ Respond

SpecOrgs == Init /\ [][NextOrgs]_vars

\* -------------------------------------------------------- the evidence

\* The requests of the evidence router and the case reads they are compared
\* with, on a case whose legacy assignee and whose creator's organization
\* change.
EvidenceActors == {"root", "adminA", "staffA", "staffB", "indiv"}

EvidenceCaseUpdates ==
    {[assigned_to |-> a, status |-> Unset] : a \in {"staffB", "indiv"}}

RequestEvidence ==
    \E u \in EvidenceActors :
        \/ create_case(u, None)
        \/ \E c \in CaseIds : read_case(u, c)
        \/ read_cases(u)
        \/ \E c \in CaseIds, upd \in EvidenceCaseUpdates : update_case(u, c, upd)
        \/ update_user(u, "staffA", [organization_id |-> None])
        \/ \E c \in CaseIds : upload_evidence(u, c)
        \/ \E c \in CaseIds, file \in BOOLEAN : create_evidence(u, c, file)
        \/ \E c \in CaseIds : create_intelligence_evidence(u, c)
        \/ \E c \in CaseIds : read_evidence_for_case(u, c)
        \/ \E e \in EvidenceIds : read_evidence(u, e)
        \/ \E e \in EvidenceIds : update_evidence(u, e, TRUE)
        \/ \E e \in EvidenceIds : delete_evidence(u, e)

NextEvidence == (last = NoRequest /\ RequestEvidence) \/ Respond

SpecEvidence == Init /\ [][NextEvidence]_vars

\* ---------------------------------------------------------- the writes

\* The requests that write a table or the upload directory, each sent by an
\* actor it is allowed to and by one it is not.
RequestWrites ==
    \E u \in TenantActors :
        \/ create_case(u, None)
        \/ \E c \in CaseIds : update_case(u, c, [assigned_to |-> Unset, status |-> CLOSED])
        \/ update_user(u, "staffA", [is_active |-> FALSE])
        \/ \E c \in CaseIds : upload_evidence(u, c)
        \/ \E c \in CaseIds : create_evidence(u, c, TRUE)
        \/ \E e \in EvidenceIds : update_evidence(u, e, TRUE)
        \/ \E e \in EvidenceIds : delete_evidence(u, e)

NextWrites == (last = NoRequest /\ RequestWrites) \/ Respond

SpecWrites == Init /\ [][NextWrites]_vars

\* ----------------------------------------------------------- the tokens

\* The requests that issue tokens, present them, and change or remove the
\* rows they were issued for: update_user (role, organization, username,
\* is_active), delete_user and the deactivation of an organization.
TokenUserUpdates ==
    {[username |-> n] : n \in {"n_staffA", "n_free"}}
    \cup {[role |-> ORG_ADMIN], [organization_id |-> "B"], [is_active |-> FALSE]}
    \cup {[username |-> "n_free", is_active |-> FALSE],
          [username |-> "n_free", role |-> ORG_ADMIN]}

RequestTokens ==
    \/ \E n \in LoginNames : login_for_access_token(n, "p1")
    \/ \E t \in tokens : rejected(t)
    \/ \E t \in tokens : inactive(t)
    \/ \E t \in tokens :
          LET u == get_current_user(t.jwt) IN
          /\ u # None
          /\ \/ \E x \in SessionTargets, upd \in TokenUserUpdates : update_user(u, x, upd)
             \/ delete_user(u, "staffA", TRUE)
             \/ update_organization(u, "A", [is_active |-> FALSE], "none")
             \/ read_cases(u)

NextTokens == (last = NoRequest /\ RequestTokens) \/ Respond

SpecTokens == InitSession /\ [][NextTokens]_vars

\* ----------------------------------------------------------- the audit IP

\* The requests the audit rows are written for: X-Forwarded-For absent, with
\* one hop, with two hops and padding, with a blank first hop; X-Real-IP
\* absent or set; with and without a transport peer.
ForwardedFor ==
    {<<"">>, <<"10.0.0.1">>, <<" 10.0.0.1 ", "10.0.0.2">>, <<" ", "10.0.0.2">>}

Requests ==
    [x_forwarded_for : ForwardedFor, x_real_ip : {"", "10.0.0.3"},
     client : {None, "10.0.0.4"}]

RequestAudit ==
    \E u \in DOMAIN users, action \in {"READ", "UPDATE"} :
        \/ \E r \in Requests : audit_log(u, action, {r})
        \/ audit_log(u, action, {})

NextAudit == (last = NoRequest /\ RequestAudit) \/ Respond

SpecAudit == Init /\ [][NextAudit]_vars

\* ---------------------------------------------------- the unassignments

\* The requests that assign a Staff user to a case, make them its legacy
\* assignee, remove the assignment, and the reads and updates they try.
UnassignActors == {"root", "adminA", "staffA"}

UnassignUpdates ==
    {[assigned_to |-> "staffA", status |-> Unset],
     [assigned_to |-> Unset, status |-> CLOSED]}

RequestUnassign ==
    \E u \in UnassignActors :
        \/ create_case(u, None)
        \/ \E c \in CaseIds : read_case(u, c)
        \/ \E c \in CaseIds, upd \in UnassignUpdates : update_case(u, c, upd)
        \/ \E c \in CaseIds : assign_users_to_case(u, c, <<"staffA">>)
        \/ \E c \in CaseIds, x \in {"staffA", "adminA"} : remove_user_from_case(u, c, x)

NextUnassign == (last = NoRequest /\ RequestUnassign) \/ Respond

SpecUnassign == Init /\ [][NextUnassign]_vars

\* ================================================================ claims

\* The requests of the case router
CaseOps == {"read_case", "update_case", "delete_case", "assign_users_to_case",
            "remove_user_from_case", "get_case_assignments"}

\* The step that serves a request named op
Serves(op) == last.op = "none" /\ last'.op = op

\* C4: for every acting user (any role, organization, id) and every case
\* (any organization, creator, legacy assignee, assignment rows), read_case
\* passes its authorization exactly when update_case passes its own,
\* whatever the update carries.
C4_ReadAllowedIffUpdateAllowed ==
    /\ [](\A u \in DOMAIN users, c \in DOMAIN cases :
            read_case_authorized(u, c) <=> update_case_authorized(u, c))
    /\ [][/\ Serves("read_case") /\ CaseExists(last'.case) =>
                (last'.res = OK <=> update_case_authorized(last'.actor, last'.case))
          /\ Serves("update_case") /\ CaseExists(last'.case) =>
                (last'.res # Forbidden <=> read_case_status(last'.actor, last'.case) = OK)
         ]_vars

\* C4 witness: a Staff user who is neither creator nor legacy assignee and
\* is in the assignment table has updated the case.
C4_Witness ==
    /\ last.op = "update_case" /\ last.res = OK /\ last.user = Unset
    /\ users[last.actor].role = STAFF_USER
    /\ cases[last.case].created_by # last.actor
    /\ cases[last.case].assigned_to # last.actor
    /\ is_assigned_via_table(last.case, last.actor)

\* The actors the delete rule names
MayDelete(u, c) ==
    \/ users[u].role = SUPER_ADMIN
    \/ /\ users[u].role = ORG_ADMIN
       /\ users[u].organization_id = cases[c].organization_id
    \/ /\ users[u].role = INDIVIDUAL_USER
       /\ cases[c].created_by = u

\* C5: delete_case on an existing case succeeds only for a Super Admin, an
\* Org Admin of the case's organization or an Individual User who created
\* the case; every other actor gets Forbidden and cases, evidence and
\* assignments stay as they were.  Whenever a Staff or Individual user
\* passes delete_case's authorization, they pass update_case's too.
C5_DeleteOnlyByOwners ==
    /\ [][Serves("delete_case") /\ CaseExists(last'.case) =>
            /\ last'.res = OK => MayDelete(last'.actor, last'.case)
            /\ ~MayDelete(last'.actor, last'.case) =>
                   /\ last'.res = Forbidden
                   /\ UNCHANGED <<cases, evidence, assignments>>]_vars
    /\ [](\A u \in DOMAIN users, c \in DOMAIN cases :
            /\ users[u].role \in {STAFF_USER, INDIVIDUAL_USER}
            /\ delete_case_status(u, c, "none") = OK
            => update_case_authorized(u, c))

\* C5 witness: a Staff user who is in the assignment table of a case with
\* evidence was refused the delete.
C5_Witness ==
    /\ last.op = "delete_case" /\ last.res = Forbidden
    /\ users[last.actor].role = STAFF_USER
    /\ is_assigned_via_table(last.case, last.actor)
    /\ \E e \in DOMAIN evidence : evidence[e].case_id = last.case

\* C2: a Staff user passes read_case and update_case only for cases of
\* their own organization, and read_cases lists only such cases to them.
C2_StaffScopedToTenant ==
    /\ /\ last.op \in {"read_case", "update_case"}
       /\ last.res = OK
       /\ users[last.actor].role = STAFF_USER
       => cases[last.case].organization_id = users[last.actor].organization_id
    /\ /\ last.op = "read_cases"
       /\ last.res = OK
       /\ users[last.actor].role = STAFF_USER
       => \A c \in last.listed :
              cases[c].organization_id = users[last.actor].organization_id

\* An Org Admin of another organization than the case's
CrossTenantOrgAdmin(u, c) ==
    /\ users[u].role = ORG_ADMIN
    /\ users[u].organization_id # cases[c].organization_id

\* The batch is one the validation accepts for case c: every id names an
\* active user of the case's organization, and no id is named twice.
BatchAcceptable(c, user_ids) ==
    /\ \A i \in DOMAIN user_ids :
           /\ user_ids[i] \in DOMAIN users
           /\ users[user_ids[i]].is_active
           /\ users[user_ids[i]].organization_id = cases[c].organization_id
    /\ \A i, j \in DOMAIN user_ids : user_ids[i] = user_ids[j] => i = j

\* The status a Super Admin's request gets on an existing case: never
\* Forbidden, and OK unless the arguments or the storage fail the request.
SuperAdminOutcome(r) ==
    CASE r.op \in {"read_case", "get_case_assignments"} -> r.res = OK
      [] r.op = "update_case" ->
            r.res = IF r.user \in {Unset, None} \cup DOMAIN users
                    THEN OK ELSE ServerError
      [] r.op = "delete_case" -> r.res \in {OK, ServerError}
      [] r.op = "assign_users_to_case" ->
            r.res = IF BatchAcceptable(r.case, r.batch) THEN OK ELSE BadRequest
      [] r.op = "remove_user_from_case" ->
            r.res = IF is_assigned_via_table(r.case, r.user) THEN OK ELSE NotFound

\* C3: on an existing case, an Org Admin of another organization is
\* Forbidden on read_case, update_case, delete_case, assign_users_to_case,
\* remove_user_from_case and get_case_assignments, and cases, evidence and
\* assignments stay as they were; a Super Admin sending the same request is
\* never Forbidden and succeeds unless the request's arguments are invalid
\* or the storage fails.
C3_CrossTenantOrgAdminForbidden ==
    [][last.op = "none" /\ last'.op \in CaseOps /\ CaseExists(last'.case) =>
           /\ CrossTenantOrgAdmin(last'.actor, last'.case) =>
                  /\ last'.res = Forbidden
                  /\ UNCHANGED <<cases, evidence, assignments>>
           /\ users[last'.actor].role = SUPER_ADMIN => SuperAdminOutcome(last')
      ]_vars

\* C3 as stated: the Super Admin's request always succeeds.
C3_SuperAdminAlwaysSucceeds ==
    [][last.op = "none" /\ last'.op \in CaseOps /\ CaseExists(last'.case) =>
           /\ CrossTenantOrgAdmin(last'.actor, last'.case) =>
                  /\ last'.res = Forbidden
                  /\ UNCHANGED <<cases, evidence, assignments>>
           /\ users[last'.actor].role = SUPER_ADMIN => last'.res = OK
      ]_vars

\* C3 witness: an Org Admin was refused the removal of a user who is
\* assigned to a case of another organization.
C3_Witness ==
    /\ last.op = "remove_user_from_case" /\ last.res = Forbidden
    /\ CrossTenantOrgAdmin(last.actor, last.case)
    /\ is_assigned_via_table(last.case, last.user)

\* A Staff user of the case's organization with no tie to the case
UnassignedStaff(u, c) ==
    /\ users[u].role = STAFF_USER
    /\ users[u].organization_id = cases[c].organization_id
    /\ cases[c].created_by # u
    /\ cases[c].assigned_to # u
    /\ \A a \in assignments : ~(a.case_id = c /\ a.user_id = u)

\* C6: a Staff user of the case's organization who is neither creator nor
\* legacy assignee nor in the assignment table is Forbidden on read_case;
\* once a Super Admin or the organization's Org Admin has added users with
\* a successful assign_users_to_case, read_case by each of them succeeds.
C6_AssignmentGrantsRead ==
    /\ [][/\ Serves("read_case") /\ CaseExists(last'.case)
          /\ UnassignedStaff(last'.actor, last'.case)
          => last'.res = Forbidden]_vars
    /\ [](last.op = "assign_users_to_case" /\ last.res = OK
          => \A x \in Ids(last.batch) : read_case_status(x, last.case) = OK)

\* C6 witness: a Staff user whose only tie to the case is a row of the
\* assignment table has read the case.
C6_Witness ==
    /\ last.op = "read_case" /\ last.res = OK
    /\ users[last.actor].role = STAFF_USER
    /\ cases[last.case].created_by # last.actor
    /\ cases[last.case].assigned_to # last.actor
    /\ is_assigned_via_table(last.case, last.actor)

\* The rows of the assignment table for the pair (c, x)
RowsOf(rows, c, x) == {a \in rows : a.case_id = c /\ a.user_id = x}

\* The actors assign_users_to_case is open to
MayAssign(u, c) ==
    \/ users[u].role = SUPER_ADMIN
    \/ /\ users[u].role = ORG_ADMIN
       /\ users[u].organization_id = cases[c].organization_id

\* x is an active user of the organization of case c
ValidTarget(c, x) ==
    /\ x \in DOMAIN users
    /\ users[x].is_active
    /\ users[x].organization_id = cases[c].organization_id

\* C7: assign_users_to_case with a batch naming one valid, active user of
\* the case's organization twice succeeds, and get_case_assignments then
\* holds that user exactly once.
C7_DuplicateBatchSucceeds ==
    /\ last.op = "assign_users_to_case" /\ CaseExists(last.case)
    /\ MayAssign(last.actor, last.case)
    /\ Len(last.batch) = 2 /\ last.batch[1] = last.batch[2]
    /\ ValidTarget(last.case, last.batch[1])
    /\ cases[last.case].assigned_to # last.batch[1]
    => /\ last.res = OK
       /\ Cardinality({i \in get_case_assignments_result(last.case) :
                           i.user = last.batch[1]}) = 1

C9_BatchValidatedBeforeWrite ==
    [][/\ Serves("assign_users_to_case") /\ CaseExists(last'.case)
       /\ MayAssign(last'.actor, last'.case)
       /\ \E x \in Ids(last'.batch) : ~ValidTarget(last'.case, x)
       => /\ last'.res = BadRequest
          /\ assignments' = assignments
      ]_vars

\* C9 witness: a batch whose first member is a valid user not yet assigned
\* and whose second member is invalid was refused.
C9_Witness ==
    /\ last.op = "assign_users_to_case" /\ last.res = BadRequest
    /\ Len(last.batch) = 2
    /\ ValidTarget(last.case, last.batch[1])
    /\ RowsOf(assignments, last.case, last.batch[1]) = {}
    /\ ~ValidTarget(last.case, last.batch[2])

\* The children of case c: its evidence rows and its assignment rows
ChildrenOf(c) ==
    <<{e \in DOMAIN evidence : evidence[e].case_id = c},
      {a \in assignments : a.case_id = c}>>

\* C10: no evidence row and no assignment row references a case that does
\* not exist; a successful delete_case removes the case with all of its
\* evidence and assignment rows, and a delete_case that fails (a storage
\* failure anywhere in the cascade included) leaves cases, evidence and
\* assignments as they were.
C10_NoOrphansAtomicDelete ==
    /\ [](/\ \A e \in DOMAIN evidence : evidence[e].case_id \in DOMAIN cases
          /\ \A a \in assignments : a.case_id \in DOMAIN cases)
    /\ [][Serves("delete_case") =>
            IF last'.res = OK
            THEN /\ last'.case \notin DOMAIN cases'
                 /\ \A e \in DOMAIN evidence' : evidence'[e].case_id # last'.case
                 /\ \A a \in assignments' : a.case_id # last'.case
            ELSE UNCHANGED <<cases, evidence, assignments>>
         ]_vars

\* C10 witness: a delete_case by an authorized actor failed in storage and
\* the case still has its evidence and its assignment rows.
C10_Witness ==
    /\ last.op = "delete_case" /\ last.res = ServerError
    /\ last.case \in DOMAIN cases
    /\ ChildrenOf(last.case)[1] # {}
    /\ ChildrenOf(last.case)[2] # {}

\* The user the token was issued to has another password hash than at the
\* time of the login.
SecretChangedSince(t) ==
    /\ t.holder \in DOMAIN users
    /\ users[t.holder].hashed_password # t.secret

\* C1: a token issued by login before its user's password changed
\* (change_password, admin_reset_password, update_user with a password,
\* confirm_password_reset) is refused with 401 by every protected operation
\* from the commit of the change on, and the refused request changes nothing.
C1_OldTokenRejected ==
    /\ [](\A t \in tokens : SecretChangedSince(t) => get_current_user(t.jwt) = None)
    /\ [][Serves("rejected") =>
            /\ last'.res = Unauthorized
            /\ UNCHANGED <<tables, counters, sessions>>]_vars

\* C11: no persisted identity has the role Individual User together with
\* an organization: create_user and update_user refuse every request that
\* would leave such a row.
C11_IndividualHasNoTenant ==
    \A x \in DOMAIN users :
        users[x].role = INDIVIDUAL_USER => users[x].organization_id = None

\* C12: every persisted Staff User and Org Admin has an organization, and
\* no persisted Super Admin has one.
C12_RoleFixesTenant ==
    \A x \in DOMAIN users :
        /\ users[x].role \in {STAFF_USER, ORG_ADMIN} => users[x].organization_id # None
        /\ users[x].role = SUPER_ADMIN => users[x].organization_id = None

\* The request being answered was sent by an Org Admin
ServedToOrgAdmin ==
    /\ last.op = "none" /\ last'.op # "none"
    /\ last'.actor \in DOMAIN users
    /\ users[last'.actor].role = ORG_ADMIN

\* C13: a request of an Org Admin (a) leaves no identity with a Super Admin
\* or Org Admin role it did not have before, (b) leaves every identity of
\* another tenant as it was, (c) moves no identity out of the Org Admin's
\* own tenant, (d) deletes no Super Admin and no Org Admin.
C13_OrgAdminConfined ==
    [][ServedToOrgAdmin =>
          LET own == users[last'.actor].organization_id IN
          /\ \A x \in DOMAIN users' :
                 users'[x].role \in {SUPER_ADMIN, ORG_ADMIN} =>
                     x \in DOMAIN users /\ users[x].role = users'[x].role
          /\ \A x \in DOMAIN users :
                 users[x].organization_id # own =>
                     x \in DOMAIN users' /\ users'[x] = users[x]
          /\ \A x \in DOMAIN users \cap DOMAIN users' :
                 users[x].organization_id = own => users'[x].organization_id = own
          /\ \A x \in DOMAIN users :
                 users[x].role \in {SUPER_ADMIN, ORG_ADMIN} => x \in DOMAIN users'
      ]_vars

\* C14: whenever an active Super Admin becomes inactive, the request that
\* did it was sent by another identity, itself a Super Admin.
C14_SuperAdminDeactivatedByAnother ==
    [][\A x \in DOMAIN users \cap DOMAIN users' :
          /\ users[x].role = SUPER_ADMIN
          /\ users[x].is_active /\ ~users'[x].is_active
          => /\ last'.actor # x
             /\ last'.actor \in DOMAIN users
             /\ users[last'.actor].role = SUPER_ADMIN
      ]_vars

\* The audit rows of a response that report a cascade
CascadeEntries(audit) ==
    {i \in DOMAIN audit : "affected_users_count" \in DOMAIN audit[i]}

\* The request being answered is an update_organization that succeeded and
\* turned the active organization org inactive
Deactivates(org) ==
    /\ Serves("update_organization") /\ last'.res = OK
    /\ last'.batch = <<org>>
    /\ org \in DOMAIN orgs /\ orgs[org].is_active
    /\ ~orgs'[org].is_active

\* C15: an update_organization that turns an active organization with K
\* active members inactive leaves exactly these K members inactive instead
\* of active, every other identity as it was, and appends exactly one
\* cascade audit row, whose affected_users_count is K.
C15_CascadeCountsActiveMembers ==
    [][\A org \in DOMAIN orgs :
          Deactivates(org) =>
              LET K == {x \in members_of(org) : users[x].is_active} IN
              /\ DOMAIN users' = DOMAIN users
              /\ \A x \in DOMAIN users :
                     users'[x] = IF x \in K THEN [users[x] EXCEPT !.is_active = FALSE]
                                 ELSE users[x]
              /\ Cardinality(CascadeEntries(last'.audit)) = 1
              /\ \A i \in CascadeEntries(last'.audit) :
                     last'.audit[i].affected_users_count = Cardinality(K)
      ]_vars

\* C16: an update_organization request leaves the organization inactive
\* with every member inactive, or leaves the organization and every member
\* as they were before the request; a request that fails leaves both as
\* they were.
C16_CascadeAtomic ==
    [][\A org \in DOMAIN orgs :
          /\ Serves("update_organization") /\ last'.batch = <<org>>
          /\ last'.res \in {OK, ServerError}
          /\ orgs[org].is_active
          => \/ /\ ~orgs'[org].is_active
                /\ \A x \in members_of(org) : ~users'[x].is_active
             \/ /\ orgs'[org].is_active
                /\ users' = users
      ]_vars

\* The users table an update_organization with a working audit store
\* leaves when it turns organization org inactive
users_deactivated(org) ==
    [x \in DOMAIN users |->
        IF x \in members_of(org) THEN [users[x] EXCEPT !.is_active = FALSE]
        ELSE users[x]]

\* C17: a request whose audit write fails gets the response and leaves the
\* users and organizations of the same request with a working audit store:
\* a successful update_organization that turns an organization inactive
\* leaves its members inactive whether or not its audit rows were written.
C17_AuditFailureChangesNothing ==
    [][\A org \in DOMAIN orgs :
          Deactivates(org) => users' = users_deactivated(org)]_vars

\* C18: create_case answers a Super Admin BadRequest, NotFound or success,
\* and a success stores an existing organization; it answers an Individual
\* User with success and stores no organization; it answers an Org Admin or
\* Staff User with success, storing the actor's own organization, or with
\* Forbidden (BadRequest for an actor without organization); a request that
\* does not succeed creates no case.
C18_CaseTenantFixedByRole ==
    [][Serves("create_case") =>
          LET current_user == users[last'.actor]
              stored == cases'[last'.case].organization_id
          IN
          /\ last'.res # OK => cases' = cases
          /\ current_user.role = SUPER_ADMIN =>
                 /\ last'.res \in {BadRequest, NotFound, OK}
                 /\ last'.res = OK => stored \in DOMAIN orgs
          /\ current_user.role = INDIVIDUAL_USER =>
                 last'.res = OK /\ stored = None
          /\ current_user.role \in {ORG_ADMIN, STAFF_USER} =>
                 /\ last'.res \in {OK, Forbidden, BadRequest}
                 /\ last'.res = OK => stored = current_user.organization_id
      ]_vars

OrganizationOps ==
    {"create_organization", "read_organizations", "read_organizations_simple",
     "read_organization", "update_organization", "delete_organization"}

\* The organization requests whose response lists organizations
OrganizationReads ==
    {"read_organizations", "read_organizations_simple", "read_organization"}

\* C19: every request to the organization router by an actor who is not a
\* Super Admin is Forbidden, returns no organization and leaves the
\* organizations and users as they were.
C19_OrganizationsSuperAdminOnly ==
    [][/\ last.op = "none" /\ last'.op \in OrganizationOps
       /\ users[last'.actor].role # SUPER_ADMIN
       => /\ last'.res = Forbidden
          /\ last'.op \in OrganizationReads => last'.listed = {}
          /\ UNCHANGED <<users, orgs>>
      ]_vars

\* The mutating and listing operations of the exposed surface
SurfaceOps ==
    CaseOps \cup OrganizationOps
    \cup {"create_case", "read_cases", "create_intelligence_evidence",
          "read_users", "create_user", "update_user", "delete_user",
          "change_password", "admin_reset_password", "confirm_password_reset"}

AuditVerbs == {"CREATE", "READ", "UPDATE", "DELETE", "ASSIGN", "UNASSIGN"}

\* C20: a successful request of the surface appends exactly one audit row;
\* an update_organization that turns an active organization inactive
\* appends exactly two, the cascade's 'UPDATE User' row and then the
\* 'UPDATE Organization' row; the verb of every row is one of AuditVerbs.
C20_OneAuditEntryPerSuccess ==
    [][/\ last.op = "none" /\ last'.op \in SurfaceOps
       /\ last'.res = OK
       => LET cascade == \E org \in DOMAIN orgs : Deactivates(org) IN
          /\ Len(last'.audit) = IF cascade THEN 2 ELSE 1
          /\ cascade =>
                 /\ CascadeEntries(last'.audit) = {1}
                 /\ last'.audit[1].action = "UPDATE"
                 /\ last'.audit[1].resource_type = "User"
                 /\ last'.audit[2] = AuditEntry("UPDATE", "Organization")
          /\ \A i \in DOMAIN last'.audit : last'.audit[i].action \in AuditVerbs
      ]_vars

\* The statuses of the checks that come before a handler's writes
AuthorizationFailures == {Unauthorized, Forbidden, NotFound, BadRequest}

\* C21: a request that ends in Unauthorized, Forbidden, NotFound or
\* BadRequest leaves the users, organizations, cases, evidence and
\* assignments tables and the stored files exactly as they were: nothing is
\* written and no file is saved before the permission check has passed.
C21_FailureWritesNothing ==
    [][(/\ last.op = "none"
        /\ last'.op # "none"
        /\ last'.res \in AuthorizationFailures)
       => UNCHANGED tables]_vars

\* an upload was answered Forbidden while the case already had evidence
C21_Witness ==
    /\ last.op = "upload_evidence"
    /\ last.res = Forbidden
    /\ evidence # <<>>

\* The row a token was issued for still carries the token's role and
\* organization, and no credential epoch later than the token's.
TokenStillMatches(t) ==
    /\ t.holder \in DOMAIN users
    /\ users[t.holder].role = t.jwt.role
    /\ users[t.holder].organization_id = t.jwt.organization_id
    /\ ~later_than(astimezone_local(db_load(users[t.holder].password_changed_at)),
                   astimezone_local(fromisoformat(t.jwt.password_changed_at)))

\* C22: an unexpired token issued by login resolves to no user (401) once
\* the user it was issued for is gone or has another stored role or
\* organization than the token carries, and resolves to that very user while
\* role, organization and credential epoch still match.
C22_TokenFollowsRoleAndTenant ==
    \A t \in tokens :
        now <= t.jwt.exp =>
            /\ (\/ t.holder \notin DOMAIN users
                \/ users[t.holder].role # t.jwt.role
                \/ users[t.holder].organization_id # t.jwt.organization_id)
               => get_current_user(t.jwt) = None
            /\ TokenStillMatches(t) => get_current_user(t.jwt) = t.holder

\* C23: once a user's is_active is false (update_user or the deactivation
\* of its organization), none of the tokens issued to it is accepted any
\* more: the token resolves to no user (401) or to an inactive one (400
\* "Inactive user"), and login with that user's name does not succeed.
C23_DeactivatedTokenNeverAccepted ==
    /\ \A t \in tokens :
           (t.holder \in DOMAIN users /\ ~users[t.holder].is_active) =>
               LET user == get_current_user(t.jwt) IN
               user = None \/ ~users[user].is_active
    /\ \A x \in DOMAIN users, p \in Passwords :
           ~users[x].is_active => login_status(users[x].username, p) # OK

\* The three endpoints that create evidence
EvidenceCreateOps == {"upload_evidence", "create_evidence", "create_intelligence_evidence"}

\* Who may add evidence to a case: a Super Admin; an Individual User who
\* created the case or is its legacy assignee; an Org Admin or Staff user of
\* the case's organization or who is its legacy assignee.
MayCreateEvidence(u, c) ==
    \/ users[u].role = SUPER_ADMIN
    \/ /\ users[u].role = INDIVIDUAL_USER
       /\ (cases[c].created_by = u \/ cases[c].assigned_to = u)
    \/ /\ users[u].role \in {ORG_ADMIN, STAFF_USER}
       /\ (cases[c].organization_id = users[u].organization_id \/ cases[c].assigned_to = u)

\* C24: on an existing case each of upload_evidence, create_evidence and
\* create_intelligence_evidence creates the evidence row, with the case's
\* organization, exactly for the actors of MayCreateEvidence, and answers
\* Forbidden to everyone else without creating anything.
C24_EvidenceCreationAllowed ==
    [][\A op \in EvidenceCreateOps :
           (Serves(op) /\ CaseExists(last'.case)) =>
               IF MayCreateEvidence(last'.actor, last'.case)
               THEN /\ last'.res = OK
                    /\ \E e \in DOMAIN evidence' \ DOMAIN evidence :
                           /\ evidence'[e].case_id = last'.case
                           /\ evidence'[e].organization_id = cases[last'.case].organization_id
               ELSE /\ last'.res = Forbidden
                    /\ UNCHANGED evidence]_vars

\* The requester IP as the fallback chain gives it: the first hop of
\* X-Forwarded-For, else X-Real-IP, else the peer address, else 127.0.0.1
ExpectedIp(request) ==
    IF request = {} THEN "127.0.0.1"
    ELSE LET r == CHOOSE x \in request : TRUE
             first_hop == strip(r.x_forwarded_for[1])
         IN  IF first_hop # "" THEN first_hop
             ELSE IF r.x_real_ip # "" THEN r.x_real_ip
             ELSE IF r.client # None THEN r.client
             ELSE "127.0.0.1"

\* C25: the ip_address of an audit row is the first hop of X-Forwarded-For
\* if that is not empty, else X-Real-IP if not empty, else the peer address
\* if the request has one, else 127.0.0.1, whatever headers and peer the
\* request has; it is 127.0.0.1 when the handler passed no request.
C25_RequesterIpFallbackChain ==
    last.op = "create_audit_log_entry" =>
        last.audit[1].ip_address = ExpectedIp(last.request)

\* The requests that show or change an evidence record
EvidenceReadOps == {"read_evidence", "read_evidence_for_case", "update_evidence"}

\* C26: an actor other than a Super Admin gets an evidence record read,
\* listed or updated only if read_case on the record's case is allowed to the
\* same actor.
C26_EvidenceReadImpliesCaseRead ==
    (/\ last.op \in EvidenceReadOps
     /\ last.res = OK
     /\ \E e \in DOMAIN evidence : evidence[e].case_id = last.case
     /\ users[last.actor].role # SUPER_ADMIN)
    => read_case_status(last.actor, last.case) = OK

\* C27: whoever is allowed to create evidence on a case is allowed read_case
\* on that case.
C27_EvidenceWriteImpliesCaseRead ==
    \A u \in DOMAIN users, c \in DOMAIN cases :
        upload_evidence_status(u, c) = OK => read_case_status(u, c) = OK

\* C28: read_cases, without filters and without a pagination cut, returns
\* to every actor exactly the cases on which read_case succeeds for that
\* actor (a refused listing counts as one that returns no case).
C28_ListedIffReadable ==
    last.op = "read_cases" =>
        (IF last.res = OK THEN last.listed ELSE {})
            = {c \in DOMAIN cases : read_case_status(last.actor, c) = OK}

\* A Staff or Individual user with no tie to the case: not its creator, not
\* its legacy assignee, no row in case_assignments.
Untied(u, c) ==
    /\ users[u].role \in {STAFF_USER, INDIVIDUAL_USER}
    /\ cases[c].created_by # u
    /\ cases[c].assigned_to # u
    /\ ~is_assigned_via_table(c, u)

\* C29: a successful remove_user_from_case leaves no assignment row for the
\* pair, and from then until the user is assigned again read_case and
\* update_case answer Forbidden to a Staff or Individual user who is neither
\* creator nor legacy assignee of the case; remove_user_from_case for a pair
\* without a row answers NotFound to whoever may manage the case and
\* changes nothing.
C29_RemovedUserForbidden ==
    /\ [][(Serves("remove_user_from_case") /\ last'.res = OK)
          => \A a \in assignments' :
                 ~(a.case_id = last'.case /\ a.user_id = last'.user)]_vars
    /\ [][((Serves("read_case") \/ Serves("update_case"))
           /\ CaseExists(last'.case)
           /\ Untied(last'.actor, last'.case))
          => last'.res = Forbidden]_vars
    /\ [][(/\ Serves("remove_user_from_case")
           /\ CaseExists(last'.case)
           /\ ~is_assigned_via_table(last'.case, last'.user))
          => /\ last'.res = IF remove_user_authorized(last'.actor, last'.case)
                            THEN NotFound ELSE Forbidden
             /\ UNCHANGED <<tables, counters, sessions>>]_vars

\* an assignment of a Staff user who is neither creator nor legacy assignee
\* of the case was removed
C29_Witness ==
    /\ last.op = "remove_user_from_case"
    /\ last.res = OK
    /\ CaseExists(last.case)
    /\ Untied(last.user, last.case)


\* C30: a reset token changes a password at most once.  A
\* confirm-password-reset answered for a token that a committed confirm
\* has already consumed, whether it came later or ran at the same time, is
\* rejected and leaves every user row, and with it every password and
\* credential epoch, as it was; a confirm answered for a token that is
\* still in the store after its expiry is rejected, removes the token and
\* changes no user row.
C30_ResetTokenUsedOnce ==
    [][Serves("confirm_password_reset") =>
         \A k \in DOMAIN password_reset_tokens :
             last'.batch = <<k>> =>
                 /\ ~password_reset_tokens[k].live =>
                        last'.res # OK /\ UNCHANGED users
                 /\ (password_reset_tokens[k].live
                        /\ now > password_reset_tokens[k].expires) =>
                        /\ last'.res = BadRequest
                        /\ ~password_reset_tokens'[k].live
                        /\ UNCHANGED users]_vars

====
